---- MODULE Spec2Model ----
(***************************************************************************)
(* The dctdnoiz video filter (libavfilter/vf_dctdnoiz.c) as a state        *)
(* machine: the private context DCTdnoizContext, the input link, and the   *)
(* callbacks init, config_input, filter_frame and uninit.                  *)
(*                                                                         *)
(* Numbers.  sigma, th and the DCT coefficients are floats in the code;    *)
(* here they are exact multiples of 1/Grid (sigma = sigma_q / Grid), which *)
(* float represents exactly for Grid = 4.  The conversion float -> int of  *)
(* the sigma_th parameter is modelled as the truncation it is.             *)
(*                                                                         *)
(* Pixels.  A packed frame buffer is an array of pixel cells addressed     *)
(* y * linesize + x (linesize counted in pixels).  A cell holds where its  *)
(* bytes come from: a >= 0 for the bytes of the input pixel at address a,  *)
(* DENOISED for a filtered value, GARBAGE for an indeterminate value,      *)
(* UNINIT for a cell of a fresh buffer nothing was written to.             *)
(*                                                                         *)
(* Planes.  The three float planes take the same path through              *)
(* filter_frame, so cbuf1[pos] describes the sample at pos of each of      *)
(* cbuf[1][0..2]: <<src, num, den, mod>> is the value                      *)
(* (num * source sample) * (1 / den), the source sample being the          *)
(* decorrelated input pixel at address src; mod says that a block over it  *)
(* had a coefficient changed, so that the value is something else.         *)
(***************************************************************************)
EXTENDS Integers, FiniteSets, Sequences, TLC

(* ---- program constants ---- *)
MIN_NBITS == 3
MAX_NBITS == 4
OVERLAP_UNSET == -1
PLANE_ALIGN == 32
EINVAL == -22
ENOMEM == -12
DENOISED == -1
GARBAGE == -2
UNINIT == -3
MaxByte == 255

(* ---- bounds of the model ---- *)
Grid == 4
MaxSigmaQ == 2
MaxSigmaFreqQ == 4
MaxW == 10
MinH == 7
MaxH == 9
MaxPad == 1
MaxCoefQ == 12
MaxNegCoefQ == 2
NCoef == 2
MaxBlocks == 16
NumShapes == 4
SmallExp == 100
MaxExp == 80
HugeExp == 126
MaxMagExp == 100
ToleranceInv == 10000
NearLevels == 2
MaxPlaneCalls == 2

NULL == "NULL"
NoLink == [w |-> 0, h |-> 0, format |-> NULL]
NoFrame == [kind |-> "none"]

(* overlap option values the lifecycle is explored with: unset (step 1),   *)
(* 0 (step bsize), 6 (step 2 or 10) and 8 (refused for n = 3, step 8 for   *)
(* n = 4); SpecOptions runs init over the whole range                      *)
OverlapRange == OVERLAP_UNSET .. (2^MAX_NBITS - 1)
OverlapSample == {OVERLAP_UNSET, 0, 6, 8}
ExprStrings == {NULL, "1", "gte(c,2)", "gte(c"}
ExprSample == {NULL, "gte(c,2)", "gte(c"}

VARIABLES
    phase,              \* where the filter instance is in its life
    ret,                \* value returned by the last callback
    opt_overlap,        \* the overlap option as the user set it
    n, sigma_q, expr_str,          \* options n, sigma (in 1/Grid), expr
    bsize, overlap, step, th_q,    \* fields set by init (th in 1/Grid)
    expr, filter_freq_func,
    inlink,             \* the input link: w, h, format
    pr_width, pr_height, p_linesize, weights, color_funcs,
    frame,              \* what the last filter_frame call did
    cbuf1,              \* the planes cbuf[1][0..2] after the last frame
    blk, blk_out, blk_out2, blk_pass,  \* a coefficient block under filter_freq
    heap,               \* per block av_malloc returned: how often it was freed
    ptr,                \* s->cbuf[i][j], s->weights: a block of heap, 0 = NULL
    dct_pc,             \* how far filter_freq_8/16 got with one block
    src_block,          \* the bsize x bsize samples filter_freq reads at src
    tmp_block1, tmp_block2,        \* the two local arrays of filter_freq
    dst_block,          \* the bsize x bsize samples filter_freq adds to at dst
    lines_back,         \* the lines of tmp_block1 transformed back one by one
    srcp,               \* the three bytes of one input pixel, in memory order
    px_planes,          \* its samples in the three planes cbuf[0][0..2]
    dstp,               \* the three bytes color_correlation writes for it
    fp_pc,              \* the statement one filter_plane call is at
    fp_y,               \* the row counter of the loop it is in
    fp_dst,             \* the destination plane, cell by cell
    fp_blocks,          \* the block positions the sweep visited, in order
    fp_calls            \* how many filter_plane calls returned

ctxvars == <<n, sigma_q, expr_str, bsize, overlap, step, th_q, expr,
             filter_freq_func>>
geomvars == <<pr_width, pr_height, p_linesize, weights, color_funcs>>
framevars == <<frame, cbuf1>>
blkvars == <<blk, blk_out, blk_out2, blk_pass>>
heapvars == <<heap, ptr>>
dctvars == <<dct_pc, src_block, tmp_block1, tmp_block2, dst_block, lines_back>>
pxvars == <<srcp, px_planes, dstp>>
fpvars == <<fp_pc, fp_y, fp_dst, fp_blocks, fp_calls>>
stepvars == <<dctvars, pxvars, fpvars>>
vars == <<phase, ret, opt_overlap, ctxvars, inlink, geomvars, framevars,
          blkvars, heapvars, stepvars>>

\* the pointer fields of the context that own a buffer
Fields == {"cbuf00", "cbuf01", "cbuf02", "cbuf10", "cbuf11", "cbuf12",
           "weights"}

(* ------------------------------------------------------------------ *)
(* small C helpers                                                      *)

\* C's a % b for b > 0: the remainder takes the sign of the dividend
CRem(a, b) == IF a >= 0 THEN a % b ELSE -((-a) % b)

\* FFALIGN(x, a) for x >= 0 and a a power of two
FFALIGN(x, a) == ((x + a - 1) \div a) * a

FFABS(a) == IF a >= 0 THEN a ELSE -a

\* the values v takes in  for (v = 0; v < limit; v += st)
LoopFrom0(limit, st) == {v \in 0 .. (limit - 1) : v % st = 0}

MaxOf(S) == CHOOSE m \in S : \A k \in S : k <= m

(* ------------------------------------------------------------------ *)
(* float and double arithmetic                                          *)
(*                                                                      *)
(* The transforms and the colour conversion compute in float and double *)
(* (IEEE 754 binary32 and binary64, each operation rounded to nearest,   *)
(* ties to even, as the compiler evaluates them with FLT_EVAL_METHOD 0  *)
(* and without contraction).  A value is kept exactly, as sign, natural *)
(* mantissa and binary exponent; an operation computes the exact result *)
(* and rounds it to the format.  Mantissas do not fit the integers of    *)
(* the checker, so naturals of any size are little-endian sequences of  *)
(* limbs < LimbBase without leading zero limbs; <<>> is 0.               *)
LimbBits == 15
LimbBase == 32768

\* An argument of an operator stands for its expression wherever the body
\* names it, a bound variable for a value.  Where an operand is the result
\* of other operations and used more than once, the operators below bind it
\* first, CHOOSE r \in {e(v) : v \in {x}} : TRUE being e(x) with x computed
\* once.

\* a without its leading zero limbs
RECURSIVE TopLimb(_, _)
TopLimb(a, k) == IF k = 0 THEN 0 ELSE IF a[k] # 0 THEN k ELSE TopLimb(a, k - 1)
BTrim(a) == CHOOSE r \in {SubSeq(v, 1, TopLimb(v, Len(v))) : v \in {a}} : TRUE

RECURSIVE BFromInt(_)
BFromInt(k) == IF k = 0 THEN <<>> ELSE <<k % LimbBase>> \o BFromInt(k \div LimbBase)

RECURSIVE BToInt(_)
BToInt(a) == IF a = <<>> THEN 0 ELSE a[1] + LimbBase * BToInt(Tail(a))

BLimb(a, i) == IF i <= Len(a) THEN a[i] ELSE 0

RECURSIVE BAddFrom(_, _, _, _)
BAddFrom(a, b, i, c) ==
    IF i > Len(a) /\ i > Len(b)
    THEN (IF c = 0 THEN <<>> ELSE <<c>>)
    ELSE CHOOSE r \in {<<t % LimbBase>> \o BAddFrom(a, b, i + 1, t \div LimbBase) :
                          t \in {BLimb(a, i) + BLimb(b, i) + c}} : TRUE
BAdd(a, b) == CHOOSE r \in {BAddFrom(v, w, 1, 0) : v \in {a}, w \in {b}} : TRUE

\* a - b for a >= b
RECURSIVE BSubFrom(_, _, _, _)
BSubFrom(a, b, i, c) ==
    IF i > Len(a) THEN <<>>
    ELSE CHOOSE r \in {IF t < 0 THEN <<t + LimbBase>> \o BSubFrom(a, b, i + 1, 1)
                       ELSE <<t>> \o BSubFrom(a, b, i + 1, 0) :
                          t \in {a[i] - BLimb(b, i) - c}} : TRUE
BSub(a, b) ==
    CHOOSE r \in {BTrim(BSubFrom(v, w, 1, 0)) : v \in {a}, w \in {b}} : TRUE

\* -1, 0, 1 as a < b, a = b, a > b
RECURSIVE BCmpFrom(_, _, _)
BCmpFrom(a, b, i) ==
    IF i = 0 THEN 0
    ELSE IF a[i] < b[i] THEN -1
    ELSE IF a[i] > b[i] THEN 1
    ELSE BCmpFrom(a, b, i - 1)
BCmp(a, b) ==
    CHOOSE r \in {IF Len(v) < Len(w) THEN -1
                  ELSE IF Len(v) > Len(w) THEN 1
                  ELSE BCmpFrom(v, w, Len(v)) : v \in {a}, w \in {b}} : TRUE

\* a * d for 0 <= d < LimbBase
RECURSIVE BMulSmallFrom(_, _, _, _)
BMulSmallFrom(a, d, i, c) ==
    IF i > Len(a) THEN (IF c = 0 THEN <<>> ELSE <<c>>)
    ELSE CHOOSE r \in {<<t % LimbBase>>
                           \o BMulSmallFrom(a, d, i + 1, t \div LimbBase) :
                          t \in {a[i] * d + c}} : TRUE
BMulSmall(a, d) ==
    CHOOSE r \in {IF w = 0 THEN <<>> ELSE BMulSmallFrom(v, w, 1, 0) :
                     v \in {a}, w \in {d}} : TRUE

\* a * (b from its limb i on), a and b not 0
RECURSIVE BMulFrom(_, _, _)
BMulFrom(a, b, i) ==
    IF i > Len(b) THEN <<>>
    ELSE CHOOSE r \in {BAdd(BMulSmall(a, b[i]),
                            IF rest = <<>> THEN <<>> ELSE <<0>> \o rest) :
                          rest \in {BMulFrom(a, b, i + 1)}} : TRUE
BMul(a, b) ==
    CHOOSE r \in {IF v = <<>> \/ w = <<>> THEN <<>> ELSE BMulFrom(v, w, 1) :
                     v \in {a}, w \in {b}} : TRUE

\* a * 2^k
BShl(a, k) ==
    CHOOSE r \in {IF v = <<>> \/ sh = 0 THEN v
                  ELSE IF sh % LimbBits = 0
                  THEN [i \in 1 .. (sh \div LimbBits) |-> 0] \o v
                  ELSE [i \in 1 .. (sh \div LimbBits) |-> 0]
                           \o BMulSmall(v, 2 ^ (sh % LimbBits)) :
                     v \in {a}, sh \in {k}} : TRUE

\* a \div 2^k
BShr(a, k) ==
    CHOOSE r \in {IF q >= Len(v) THEN <<>>
                  ELSE BTrim([i \in 1 .. (Len(v) - q) |->
                                (v[i + q] \div d)
                                    + (BLimb(v, i + q + 1) % d) * (LimbBase \div d)]) :
                     v \in {a}, q \in {k \div LimbBits},
                     d \in {2 ^ (k % LimbBits)}} : TRUE

RECURSIVE IntBitLen(_)
IntBitLen(k) == IF k = 0 THEN 0 ELSE 1 + IntBitLen(k \div 2)
BBitLen(a) ==
    CHOOSE r \in {IF v = <<>> THEN 0
                  ELSE LimbBits * (Len(v) - 1) + IntBitLen(v[Len(v)]) :
                     v \in {a}} : TRUE

\* is bit k of a set (bit 0 is the lowest)?
BBit(a, k) == (BLimb(a, (k \div LimbBits) + 1) \div 2 ^ (k % LimbBits)) % 2 = 1

\* is any of the bits 0 .. k - 1 of a set?
BLowBits(a, k) ==
    \/ \E i \in 1 .. (k \div LimbBits) : BLimb(a, i) # 0
    \/ BLimb(a, (k \div LimbBits) + 1) % 2 ^ (k % LimbBits) # 0

\* a float or double value: <<k, s, m, e>>; k = 0 is the number s * m * 2^e
\* (s = 1 or -1, m a natural), k = 1 is s * infinity, k = 2 is NaN
XZero == <<0, 1, <<>>, 0>>
XInf(s) == <<1, s, <<>>, 0>>
XNaN == <<2, 1, <<>>, 0>>
XInt(k) == IF k >= 0 THEN <<0, 1, BFromInt(k), 0>> ELSE <<0, -1, BFromInt(-k), 0>>
\* s * k * 2^e for a small natural k
XPow(s, k, e) == <<0, s, BFromInt(k), e>>
XIsZero(x) == x[1] = 0 /\ x[3] = <<>>
XNeg(x) ==
    CHOOSE r \in {IF v[1] = 2 THEN v ELSE <<v[1], -v[2], v[3], v[4]>> :
                     v \in {x}} : TRUE

\* exact product
XMul(x, y) ==
    CHOOSE r \in {
        IF v[1] = 2 \/ w[1] = 2 THEN XNaN
        ELSE IF v[1] = 1 \/ w[1] = 1
        THEN (IF XIsZero(v) \/ XIsZero(w) THEN XNaN ELSE XInf(v[2] * w[2]))
        ELSE <<0, v[2] * w[2], BMul(v[3], w[3]), v[4] + w[4]>> :
            v \in {x}, w \in {y}} : TRUE

\* exact sum of the finite numbers v and w, neither of them 0, e the
\* smaller of their exponents
XAddMantissas(v, w, e) ==
    CHOOSE r \in {
        IF v[2] = w[2] THEN <<0, v[2], BAdd(mx, my), e>>
        ELSE IF BCmp(mx, my) = 0 THEN XZero
        ELSE IF BCmp(mx, my) > 0 THEN <<0, v[2], BSub(mx, my), e>>
        ELSE <<0, w[2], BSub(my, mx), e>> :
            mx \in {BShl(v[3], v[4] - e)}, my \in {BShl(w[3], w[4] - e)}} : TRUE

\* exact sum
XAdd(x, y) ==
    CHOOSE r \in {
        IF v[1] = 2 \/ w[1] = 2 THEN XNaN
        ELSE IF v[1] = 1
        THEN (IF w[1] = 1 /\ w[2] # v[2] THEN XNaN ELSE v)
        ELSE IF w[1] = 1 THEN w
        ELSE IF v[3] = <<>> THEN w
        ELSE IF w[3] = <<>> THEN v
        ELSE XAddMantissas(v, w, IF v[4] < w[4] THEN v[4] ELSE w[4]) :
            v \in {x}, w \in {y}} : TRUE

XSub(x, y) == XAdd(x, XNeg(y))

\* the finite number v, not 0, with the low sh >= 1 bits of its mantissa
\* rounded away to nearest, ties to even
RoundAway(v, sh, emax) ==
    CHOOSE r \in {
        IF m = <<>> THEN XZero
        ELSE IF BBitLen(m) + v[4] + sh > emax THEN XInf(v[2])
        ELSE <<0, v[2], m, v[4] + sh>> :
            m \in {CHOOSE u \in {
                       \* the discarded bits: the first one, and the rest
                       IF /\ BBit(v[3], sh - 1)
                          /\ \/ BLowBits(v[3], sh - 1)
                             \/ (dn # <<>> /\ dn[1] % 2 = 1)
                       THEN BAdd(dn, <<1>>) ELSE dn :
                           dn \in {BShr(v[3], sh)}} : TRUE}} : TRUE

\* x rounded to the nearest number with p bits of precision, ties to even,
\* quantum at least 2^qmin, magnitudes of 2^emax or more becoming infinity
Round(x, p, qmin, emax) ==
    CHOOSE r \in {
        IF v[1] # 0 \/ v[3] = <<>> THEN v
        ELSE CHOOSE u \in {
                 IF sh <= 0
                 THEN (IF BBitLen(v[3]) + v[4] > emax THEN XInf(v[2]) ELSE v)
                 ELSE RoundAway(v, sh, emax) :
                     sh \in {LET q0 == BBitLen(v[3]) + v[4] - p
                             IN  (IF q0 < qmin THEN qmin ELSE q0) - v[4]}} : TRUE :
            v \in {x}} : TRUE

RndF(x) == Round(x, 24, -149, 128)
RndD(x) == Round(x, 53, -1074, 1024)

\* conversion to int: the fraction is discarded (for |x| < 2^31)
XTrunc(x) ==
    CHOOSE r \in {v[2] * BToInt(IF v[4] >= 0 THEN BShl(v[3], v[4])
                                ELSE BShr(v[3], -v[4])) : v \in {x}} : TRUE

XAbs(x) == CHOOSE r \in {<<v[1], 1, v[3], v[4]>> : v \in {x}} : TRUE

XIsFinite(x) == x[1] = 0

\* -1, 0, 1 as x < y, x = y, x > y, for finite x and y
XCmp(x, y) ==
    CHOOSE r \in {IF XIsZero(d) THEN 0 ELSE d[2] : d \in {XSub(x, y)}} : TRUE

\* float op float is a float operation; an operation with a double operand
\* (every literal without suffix is a double) is a double operation
FAdd(x, y) == RndF(XAdd(x, y))
FSub(x, y) == RndF(XSub(x, y))
FMul(x, y) == RndF(XMul(x, y))
DAdd(x, y) == RndD(XAdd(x, y))
DSub(x, y) == RndD(XSub(x, y))
DMul(x, y) == RndD(XMul(x, y))

\* x is a value a float variable can hold
IsFloat(x) ==
    \E v \in {x} : XIsFinite(v) /\ \E f \in {RndF(v)} : XIsFinite(f) /\ XCmp(f, v) = 0

(* ------------------------------------------------------------------ *)
(* init                                                                 *)

\* init: if (s->overlap == -1) s->overlap = s->bsize - 1
DefaultOverlapNoReplace(ov, bs) == ov
DefaultOverlap(ov, bs) == IF ov = OVERLAP_UNSET THEN bs - 1 ELSE ov

\* init: if (s->overlap > s->bsize - 1) ... return AVERROR(EINVAL)
OverlapTooBigOffByOne(ov, bs) == ov > bs
OverlapTooBig(ov, bs) == ov > bs - 1

\* the return value of av_expr_parse on the option string: negative for
\* an expression that does not parse
AvExprParse(str) == IF str = "gte(c" THEN EINVAL ELSE 0

\* init: the switch on s->n under if (s->expr_str) / else
SelectFilterFreqSigmaOnly(has_expr, nbits) ==
    IF nbits = 3 THEN "filter_freq_sigma_8" ELSE "filter_freq_sigma_16"
SelectFilterFreq(has_expr, nbits) ==
    IF has_expr
    THEN (IF nbits = 3 THEN "filter_freq_expr_8" ELSE "filter_freq_expr_16")
    ELSE (IF nbits = 3 THEN "filter_freq_sigma_8" ELSE "filter_freq_sigma_16")

\* the state options parsing leaves behind, before init runs
OptionsSet(Ns, Overlaps, Sigmas, Exprs) ==
    /\ phase = "opened"
    /\ ret = 0
    /\ n \in Ns
    /\ opt_overlap \in Overlaps
    /\ overlap = opt_overlap
    /\ sigma_q \in Sigmas
    /\ expr_str \in Exprs
    /\ bsize = 0 /\ step = 0 /\ th_q = 0
    /\ expr = NULL /\ filter_freq_func = NULL
    /\ pr_width = 0 /\ pr_height = 0 /\ p_linesize = 0
    /\ inlink = NoLink
    /\ weights = <<>> /\ color_funcs = NULL
    /\ frame = NoFrame /\ cbuf1 = <<>>
    /\ blk = <<>> /\ blk_out = <<>> /\ blk_out2 = <<>> /\ blk_pass = 0
    /\ heap = <<>>
    /\ ptr = [f \in Fields |-> 0]
    /\ dct_pc = "none"
    /\ src_block = <<>> /\ tmp_block1 = <<>> /\ tmp_block2 = <<>>
    /\ dst_block = <<>> /\ lines_back = <<>>
    /\ srcp = <<>> /\ px_planes = <<>> /\ dstp = <<>>
    /\ fp_pc = "none" /\ fp_y = 0 /\ fp_dst = <<>> /\ fp_blocks = <<>>
    /\ fp_calls = 0

init ==
    /\ phase = "opened"
    /\ bsize' = 2^n
    /\ overlap' = DefaultOverlap(overlap, bsize')
    /\ IF OverlapTooBig(overlap', bsize')
       THEN /\ ret' = EINVAL
            /\ phase' = "init_failed"
            /\ UNCHANGED <<expr, filter_freq_func, th_q, step>>
       ELSE IF expr_str # NULL /\ AvExprParse(expr_str) < 0
       THEN /\ ret' = AvExprParse(expr_str)
            /\ phase' = "init_failed"
            /\ UNCHANGED <<expr, filter_freq_func, th_q, step>>
       ELSE /\ expr' = (IF expr_str # NULL THEN expr_str ELSE NULL)
            /\ filter_freq_func' = SelectFilterFreq(expr_str # NULL, n)
            /\ th_q' = sigma_q * 3
            /\ step' = bsize' - overlap'
            /\ ret' = 0
            /\ phase' = "inited"
    /\ UNCHANGED <<opt_overlap, n, sigma_q, expr_str, inlink, geomvars,
                   framevars, blkvars, heapvars, stepvars>>

(* ------------------------------------------------------------------ *)
(* query_formats and the negotiation of the input link's format         *)

\* query_formats: the list pix_fmts handed to ff_set_common_formats
PixFmtsWithYUV == {"RGB24", "BGR24", "YUV420P"}
PixFmts == {"RGB24", "BGR24"}

\* the formats the filter upstream may offer on the link
OfferedFmts == {"RGB24", "BGR24", "YUV420P"}

\* The graph is configured: the format offered on the input link is
\* settled against the list of query_formats.  A format of the list
\* becomes the link's format; any other is refused with an error and the
\* link is never configured.
negotiate_format(format) ==
    /\ phase = "inited"
    /\ inlink.format = NULL
    /\ inlink' = [inlink EXCEPT !.format = format]
    /\ IF format \in PixFmts
       THEN UNCHANGED <<phase, ret>>
       ELSE /\ phase' = "format_refused"
            /\ ret' = EINVAL
    /\ UNCHANGED <<opt_overlap, ctxvars, geomvars, framevars, blkvars,
                   heapvars, stepvars>>

(* ------------------------------------------------------------------ *)
(* config_input                                                         *)

\* s->pr_width = inlink->w - (inlink->w - bsize) % s->step
ProcessableDim(dim, bs, st) == dim - CRem(dim - bs, st)

\* the block positions of the weight sweep: both for loops of config_input
WeightSweep(prw, prh, bs, st) ==
    LoopFrom0(prw - bs + 1, st) \X LoopFrom0(prh - bs + 1, st)

\* does the bs x bs block at b hold the cell pos?
Covers(b, bs, pos) ==
    /\ b[1] <= pos[1] /\ pos[1] < b[1] + bs
    /\ b[2] <= pos[2] /\ pos[2] < b[2] + bs

Region(w, h) == (0 .. (w - 1)) \X (0 .. (h - 1))

\* iweights after the sweep: one increment per block of the sweep and cell
\* of its footprint
IWeights(prw, prh, bs, st) ==
    LET sweep == WeightSweep(prw, prh, bs, st)
    IN  [pos \in Region(prw, prh) |->
            Cardinality({b \in sweep : Covers(b, bs, pos)})]

\* s->weights[..] = 1. / iweights[..], kept as <<numerator, denominator>>;
\* a denominator 0 is what the division by a zero counter gives
Reciprocal(c) == <<1, c>>

\* the switch on inlink->format; NULL stands for the default case, which
\* is av_assert0(0)
ColorFuncs(format) ==
    IF format = "BGR24" THEN "bgr"
    ELSE IF format = "RGB24" THEN "rgb"
    ELSE NULL

\* the allocations of config_input in program order: av_malloc of the
\* planes cbuf[i][j], of the weights, av_calloc of the counters
AllocSites == <<"cbuf00", "cbuf01", "cbuf02", "cbuf10", "cbuf11", "cbuf12",
                "weights", "iweights">>

\* the allocation of config_input that fails, if any
AllocFailures == {"none"} \cup {AllocSites[i] : i \in DOMAIN AllocSites}

\* the tests  if (!s->cbuf[i][0] || !s->cbuf[i][1] || !s->cbuf[i][2]),
\* if (!s->weights), if (!iweights), each with return AVERROR(ENOMEM)
ReturnsENOMEMUnlessWeights(fail) == fail \notin {"none", "weights"}
ReturnsENOMEM(fail) == fail # "none"

\* how many of the allocations are attempted before config_input returns:
\* the three planes of a row are all requested before the row is tested
Attempted(fail) ==
    IF fail \in {"cbuf00", "cbuf01", "cbuf02"} THEN 3
    ELSE IF fail \in {"cbuf10", "cbuf11", "cbuf12"} THEN 6
    ELSE IF fail = "weights" THEN 7
    ELSE 8

\* the blocks the call obtains, in program order
NewBlocks(fail) ==
    SelectSeq(SubSeq(AllocSites, 1, Attempted(fail)), LAMBDA a : a # fail)

IndexOf(seq, x) == CHOOSE i \in DOMAIN seq : seq[i] = x

\* the heap after the call: the obtained blocks are live, except the
\* counters, which av_free(iweights) has freed before the return
HeapAfterConfig(hp, fail) ==
    LET nb == NewBlocks(fail)
    IN  hp \o [i \in 1 .. Len(nb) |-> IF nb[i] = "iweights" THEN 1 ELSE 0]

\* the pointer fields after the call: every attempted allocation assigns
\* its field, NULL when it failed, whatever the field held before
PtrAfterConfig(pt, hp, fail) ==
    LET nb == NewBlocks(fail)
        tried == {AllocSites[i] : i \in 1 .. Attempted(fail)}
    IN  [f \in Fields |->
            IF f \notin tried THEN pt[f]
            ELSE IF f = fail THEN 0
            ELSE Len(hp) + IndexOf(nb, f)]

\* config_input may run again (the link is configured anew); the number
\* of blocks ever allocated is capped at MaxBlocks
config_input(w, h, fail) ==
    /\ phase \in {"inited", "configured", "config_failed"}
    /\ inlink.format # NULL
    /\ Len(heap) + Len(AllocSites) <= MaxBlocks
    /\ inlink' = [inlink EXCEPT !.w = w, !.h = h]
    /\ IF ColorFuncs(inlink.format) = NULL
       THEN \* av_assert0(0) aborts the process
            /\ phase' = "aborted"
            /\ UNCHANGED <<ret, geomvars, framevars, heapvars>>
       ELSE /\ color_funcs' = ColorFuncs(inlink.format)
            /\ pr_width' = ProcessableDim(w, 2^n, step)
            /\ pr_height' = ProcessableDim(h, 2^n, step)
            /\ p_linesize' = FFALIGN(pr_width', PLANE_ALIGN)
            /\ heap' = HeapAfterConfig(heap, fail)
            /\ ptr' = PtrAfterConfig(ptr, heap, fail)
            \* no frame was filtered under this configuration; planes
            \* allocated anew hold nothing
            /\ frame' = NoFrame
            /\ cbuf1' = (IF Attempted(fail) > 3 THEN <<>> ELSE cbuf1)
            /\ IF ReturnsENOMEM(fail)
               THEN /\ ret' = ENOMEM
                    /\ phase' = "config_failed"
                    \* a weights buffer allocated anew holds nothing
                    /\ weights' = (IF Attempted(fail) > 6 THEN <<>>
                                   ELSE weights)
               ELSE /\ weights' =
                        LET iw == IWeights(pr_width', pr_height', 2^n, step)
                        IN  [pos \in Region(pr_width', pr_height') |->
                                Reciprocal(iw[pos])]
                    /\ ret' = 0
                    /\ phase' = "configured"
    /\ UNCHANGED <<opt_overlap, ctxvars, blkvars, stepvars>>

(* ------------------------------------------------------------------ *)
(* frequency filtering: the loop of filter_freq_8 / filter_freq_16      *)

\* coefficient values of the model, in 1/Grid
CoefValues == (-MaxNegCoefQ) .. MaxCoefQ

\* the int parameter sigma_th receives the float s->th: the conversion
\* discards the fraction (s->th >= 0)
SigmaTh(thq) == thq \div Grid

\* av_expr_eval of the parsed expression at c = |coefficient| (in 1/Grid)
AvExprEval(e, cabs) ==
    IF e = "gte(c,2)" THEN (IF cabs >= 2 * Grid THEN 1 ELSE 0) ELSE 1

\* if (FFABS(*b) < sigma_th) *b = 0;   c in 1/Grid, sigma_th an int
ThresholdCoefInclusive(c, sigma_th) ==
    IF FFABS(c) <= sigma_th * Grid THEN 0 ELSE c
ThresholdCoefHalve(c, sigma_th) ==
    IF FFABS(c) < sigma_th * Grid THEN c \div 2 ELSE c
ThresholdCoef(c, sigma_th) == IF FFABS(c) < sigma_th * Grid THEN 0 ELSE c

\* the body of the coefficient loop
FilterCoef(c, e, sigma_th) ==
    IF e # NULL THEN c * AvExprEval(e, FFABS(c))
    ELSE ThresholdCoef(c, sigma_th)

\* the coefficient loop over a transformed block: i = 0 is the DC term
FilterCoefs(b, e, sigma_th) ==
    [i \in DOMAIN b |-> FilterCoef(b[i], e, sigma_th)]

\* filter_freq_sigma_N passes (NULL, s->th), filter_freq_expr_N (s->expr, 0)
FilterFreqFunc(func, b) ==
    IF func \in {"filter_freq_sigma_8", "filter_freq_sigma_16"}
    THEN FilterCoefs(b, NULL, SigmaTh(th_q))
    ELSE FilterCoefs(b, expr, 0)

\* one call of s->filter_freq_func on a block with coefficients b
filter_freq_first(b) ==
    /\ phase = "inited"
    /\ blk_pass = 0
    /\ blk' = b
    /\ blk_out' = FilterFreqFunc(filter_freq_func, b)
    /\ blk_pass' = 1
    /\ UNCHANGED <<phase, ret, opt_overlap, ctxvars, inlink, geomvars,
                   framevars, blk_out2, heapvars, stepvars>>

\* the same routine applied to the coefficients it produced
filter_freq_again ==
    /\ phase = "inited"
    /\ blk_pass = 1
    /\ blk_out2' = FilterFreqFunc(filter_freq_func, blk_out)
    /\ blk_pass' = 2
    /\ UNCHANGED <<phase, ret, opt_overlap, ctxvars, inlink, geomvars,
                   framevars, blk, blk_out, heapvars, stepvars>>

(* ------------------------------------------------------------------ *)
(* the transforms: fdct8_1d, idct8_1d, fdct16_1d, idct16_1d             *)

\* the literals of the transforms (field c1_4142135623731 is the literal
\* 1.4142135623731): the doubles nearest to the decimals
DctLiterals ==
    [c1_38703984532215 |-> <<0, 1, <<1345, 25277, 17730, 177>>, -52>>,
     c0_275899379282943 |-> <<0, 1, <<29109, 15744, 8535, 141>>, -54>>,
     c1_17587560241936 |-> <<0, 1, <<25375, 24337, 16779, 150>>, -52>>,
     c0_785694958387102 |-> <<0, 1, <<15563, 24686, 9321, 50>>, -51>>,
     c0_353553390593274 |-> <<0, 1, <<15313, 19710, 633, 181>>, -54>>,
     c0_461939766255643 |-> <<0, 1, <<3391, 7781, 16815, 236>>, -54>>,
     c0_191341716182545 |-> <<0, 1, <<10599, 19805, 30602, 195>>, -55>>,
     c0_707106781186547 |-> <<0, 1, <<26489, 6559, 20559, 22>>, -50>>,
     c1_4142135623731 |-> <<0, 1, <<15331, 19710, 633, 181>>, -52>>,
     c1_30656296487638 |-> <<0, 1, <<28939, 8841, 7866, 167>>, -52>>,
     c0_541196100146197 |-> <<0, 1, <<14485, 30646, 17897, 138>>, -53>>,
     c0_5 |-> <<0, 1, <<1>>, -1>>,
     c0_25 |-> <<0, 1, <<1>>, -2>>,
     c1_40740373752638 |-> <<0, 1, <<7733, 26400, 13349, 1>>, -45>>,
     c0_138617169199091 |-> <<0, 1, <<29389, 6191, 31850, 70>>, -54>>,
     c1_35331800117435 |-> <<0, 1, <<7259, 3460, 7363, 173>>, -52>>,
     c0_410524527522357 |-> <<0, 1, <<21545, 2735, 18625, 6>>, -49>>,
     c1_24722501298667 |-> <<0, 1, <<32425, 28208, 21128, 159>>, -52>>,
     c0_666655658477747 |-> <<0, 1, <<22423, 8109, 21822, 42>>, -51>>,
     c1_09320186700176 |-> <<0, 1, <<11745, 31574, 30468, 139>>, -52>>,
     c0_897167586342636 |-> <<0, 1, <<30543, 19531, 27441, 114>>, -52>>,
     c0_326640741219094 |-> <<0, 1, <<28921, 8841, 7866, 167>>, -54>>,
     c0_135299025036549 |-> <<0, 1, <<20003, 15853, 20858, 34>>, -53>>,
     c0_176776695296637 |-> <<0, 1, <<15313, 19710, 633, 181>>, -55>>]

\* (add ? dst[k] : 0), the first term of every sample idct writes
DstTermAlways(add, x) == x
DstTerm(add, x) == IF add # 0 THEN x ELSE XZero

\* The body of the loop of each transform, statement by statement: s is
\* the line of samples src[k * src_stridea], d the line
\* dst[k * dst_stridea] before the call, x the const floats defined so
\* far.  The statements are taken in groups, a group ending before the
\* first statement that uses a variable of the group; group k is given
\* as the variables it defines, the stores to dst as the last group.  A
\* const float is rounded to float where it is initialised, a sample
\* where it is stored.
fdct8_1d(k, s, x) ==
    CASE k = 1 -> [x00 |-> FAdd(s[1], s[8]),
                   x01 |-> FAdd(s[2], s[7]),
                   x02 |-> FAdd(s[3], s[6]),
                   x03 |-> FAdd(s[4], s[5]),
                   x04 |-> FSub(s[1], s[8]),
                   x05 |-> FSub(s[2], s[7]),
                   x06 |-> FSub(s[3], s[6]),
                   x07 |-> FSub(s[4], s[5])]
      [] k = 2 -> [x08 |-> FAdd(x.x00, x.x03),
                   x09 |-> FAdd(x.x01, x.x02),
                   x0a |-> FSub(x.x00, x.x03),
                   x0b |-> FSub(x.x01, x.x02),
                   x0c |-> RndF(DAdd(DMul(DctLiterals.c1_38703984532215,
                               x.x04), DMul(DctLiterals.c0_275899379282943,
                               x.x07))),
                   x0d |-> RndF(DAdd(DMul(DctLiterals.c1_17587560241936,
                               x.x05), DMul(DctLiterals.c0_785694958387102,
                               x.x06))),
                   x0e |-> RndF(DAdd(DMul(XNeg(DctLiterals.c0_785694958387102), x.x05),
                               DMul(DctLiterals.c1_17587560241936, x.x06))),
                   x0f |-> RndF(DSub(DMul(DctLiterals.c0_275899379282943,
                               x.x04), DMul(DctLiterals.c1_38703984532215,
                               x.x07)))]
      [] k = 3 -> [x10 |-> RndF(DMul(DctLiterals.c0_353553390593274,
                               FSub(x.x0c, x.x0d))),
                   x11 |-> RndF(DMul(DctLiterals.c0_353553390593274,
                               FSub(x.x0e, x.x0f)))]
      [] k = 4 ->
           [dst |-> <<RndF(DMul(DctLiterals.c0_353553390593274, FAdd(x.x08,
                          x.x09))),
                      RndF(DMul(DctLiterals.c0_353553390593274, FAdd(x.x0c,
                          x.x0d))),
                      RndF(DAdd(DMul(DctLiterals.c0_461939766255643, x.x0a),
                          DMul(DctLiterals.c0_191341716182545, x.x0b))),
                      RndF(DMul(DctLiterals.c0_707106781186547, FSub(x.x10,
                          x.x11))),
                      RndF(DMul(DctLiterals.c0_353553390593274, FSub(x.x08,
                          x.x09))),
                      RndF(DMul(DctLiterals.c0_707106781186547, FAdd(x.x10,
                          x.x11))),
                      RndF(DSub(DMul(DctLiterals.c0_191341716182545, x.x0a),
                          DMul(DctLiterals.c0_461939766255643, x.x0b))),
                      RndF(DMul(DctLiterals.c0_353553390593274, FAdd(x.x0e,
                          x.x0f)))>>]

idct8_1d(k, s, d, add, x) ==
    CASE k = 1 -> [x00 |-> RndF(DMul(DctLiterals.c1_4142135623731, s[1])),
                   x01 |-> RndF(DAdd(DMul(DctLiterals.c1_38703984532215,
                               s[2]), DMul(DctLiterals.c0_275899379282943,
                               s[8]))),
                   x02 |-> RndF(DAdd(DMul(DctLiterals.c1_30656296487638,
                               s[3]), DMul(DctLiterals.c0_541196100146197,
                               s[7]))),
                   x03 |-> RndF(DAdd(DMul(DctLiterals.c1_17587560241936,
                               s[4]), DMul(DctLiterals.c0_785694958387102,
                               s[6]))),
                   x04 |-> RndF(DMul(DctLiterals.c1_4142135623731, s[5])),
                   x05 |-> RndF(DAdd(DMul(XNeg(DctLiterals.c0_785694958387102), s[4]),
                               DMul(DctLiterals.c1_17587560241936, s[6]))),
                   x06 |-> RndF(DSub(DMul(DctLiterals.c0_541196100146197,
                               s[3]), DMul(DctLiterals.c1_30656296487638,
                               s[7]))),
                   x07 |-> RndF(DAdd(DMul(XNeg(DctLiterals.c0_275899379282943), s[2]),
                               DMul(DctLiterals.c1_38703984532215, s[8])))]
      [] k = 2 -> [x09 |-> FAdd(x.x00, x.x04),
                   x0a |-> FAdd(x.x01, x.x03),
                   x0b |-> RndF(DMul(DctLiterals.c1_4142135623731, x.x02)),
                   x0c |-> FSub(x.x00, x.x04),
                   x0d |-> FSub(x.x01, x.x03)]
      [] k = 3 -> [x0e |-> RndF(DMul(DctLiterals.c0_353553390593274,
                               FSub(x.x09, x.x0b))),
                   x0f |-> RndF(DMul(DctLiterals.c0_353553390593274,
                               FAdd(x.x0c, x.x0d))),
                   x10 |-> RndF(DMul(DctLiterals.c0_353553390593274,
                               FSub(x.x0c, x.x0d))),
                   x11 |-> RndF(DMul(DctLiterals.c1_4142135623731, x.x06)),
                   x12 |-> FAdd(x.x05, x.x07),
                   x13 |-> FSub(x.x05, x.x07)]
      [] k = 4 -> [x14 |-> RndF(DMul(DctLiterals.c0_353553390593274,
                               FAdd(x.x11, x.x12))),
                   x15 |-> RndF(DMul(DctLiterals.c0_353553390593274,
                               FSub(x.x11, x.x12))),
                   x16 |-> RndF(DMul(DctLiterals.c0_5, x.x13))]
      [] k = 5 -> [x08 |-> XNeg(x.x15)]
      [] k = 6 ->
           [dst |-> <<RndF(DAdd(DAdd(DstTerm(add, d[1]),
                          DMul(DctLiterals.c0_25, FAdd(x.x09, x.x0b))),
                          DMul(DctLiterals.c0_353553390593274, x.x0a))),
                      RndF(DAdd(DstTerm(add, d[2]),
                          DMul(DctLiterals.c0_707106781186547, FSub(x.x0f,
                          x.x08)))),
                      RndF(DAdd(DstTerm(add, d[3]),
                          DMul(DctLiterals.c0_707106781186547, FAdd(x.x0f,
                          x.x08)))),
                      RndF(DAdd(DstTerm(add, d[4]),
                          DMul(DctLiterals.c0_707106781186547, FAdd(x.x0e,
                          x.x16)))),
                      RndF(DAdd(DstTerm(add, d[5]),
                          DMul(DctLiterals.c0_707106781186547, FSub(x.x0e,
                          x.x16)))),
                      RndF(DAdd(DstTerm(add, d[6]),
                          DMul(DctLiterals.c0_707106781186547, FSub(x.x10,
                          x.x14)))),
                      RndF(DAdd(DstTerm(add, d[7]),
                          DMul(DctLiterals.c0_707106781186547, FAdd(x.x10,
                          x.x14)))),
                      RndF(DSub(DAdd(DstTerm(add, d[8]),
                          DMul(DctLiterals.c0_25, FAdd(x.x09, x.x0b))),
                          DMul(DctLiterals.c0_353553390593274, x.x0a)))>>]

fdct16_1d(k, s, x) ==
    CASE k = 1 -> [x00 |-> FAdd(s[1], s[16]),
                   x01 |-> FAdd(s[2], s[15]),
                   x02 |-> FAdd(s[3], s[14]),
                   x03 |-> FAdd(s[4], s[13]),
                   x04 |-> FAdd(s[5], s[12]),
                   x05 |-> FAdd(s[6], s[11]),
                   x06 |-> FAdd(s[7], s[10]),
                   x07 |-> FAdd(s[8], s[9]),
                   x08 |-> FSub(s[1], s[16]),
                   x09 |-> FSub(s[2], s[15]),
                   x0a |-> FSub(s[3], s[14]),
                   x0b |-> FSub(s[4], s[13]),
                   x0c |-> FSub(s[5], s[12]),
                   x0d |-> FSub(s[6], s[11]),
                   x0e |-> FSub(s[7], s[10]),
                   x0f |-> FSub(s[8], s[9])]
      [] k = 2 -> [x10 |-> FAdd(x.x00, x.x07),
                   x11 |-> FAdd(x.x01, x.x06),
                   x12 |-> FAdd(x.x02, x.x05),
                   x13 |-> FAdd(x.x03, x.x04),
                   x14 |-> FSub(x.x00, x.x07),
                   x15 |-> FSub(x.x01, x.x06),
                   x16 |-> FSub(x.x02, x.x05),
                   x17 |-> FSub(x.x03, x.x04)]
      [] k = 3 -> [x18 |-> FAdd(x.x10, x.x13),
                   x19 |-> FAdd(x.x11, x.x12),
                   x1a |-> FSub(x.x10, x.x13),
                   x1b |-> FSub(x.x11, x.x12),
                   x1c |-> RndF(DAdd(DMul(DctLiterals.c1_38703984532215,
                               x.x14), DMul(DctLiterals.c0_275899379282943,
                               x.x17))),
                   x1d |-> RndF(DAdd(DMul(DctLiterals.c1_17587560241936,
                               x.x15), DMul(DctLiterals.c0_785694958387102,
                               x.x16))),
                   x1e |-> RndF(DAdd(DMul(XNeg(DctLiterals.c0_785694958387102), x.x15),
                               DMul(DctLiterals.c1_17587560241936, x.x16))),
                   x1f |-> RndF(DSub(DMul(DctLiterals.c0_275899379282943,
                               x.x14), DMul(DctLiterals.c1_38703984532215,
                               x.x17)))]
      [] k = 4 -> [x20 |-> RndF(DMul(DctLiterals.c0_25, FSub(x.x1c, x.x1d))),
                   x21 |-> RndF(DMul(DctLiterals.c0_25, FSub(x.x1e, x.x1f))),
                   x22 |-> RndF(DAdd(DMul(DctLiterals.c1_40740373752638,
                               x.x08), DMul(DctLiterals.c0_138617169199091,
                               x.x0f))),
                   x23 |-> RndF(DAdd(DMul(DctLiterals.c1_35331800117435,
                               x.x09), DMul(DctLiterals.c0_410524527522357,
                               x.x0e))),
                   x24 |-> RndF(DAdd(DMul(DctLiterals.c1_24722501298667,
                               x.x0a), DMul(DctLiterals.c0_666655658477747,
                               x.x0d))),
                   x25 |-> RndF(DAdd(DMul(DctLiterals.c1_09320186700176,
                               x.x0b), DMul(DctLiterals.c0_897167586342636,
                               x.x0c))),
                   x26 |-> RndF(DAdd(DMul(XNeg(DctLiterals.c0_897167586342636), x.x0b),
                               DMul(DctLiterals.c1_09320186700176, x.x0c))),
                   x27 |-> RndF(DSub(DMul(DctLiterals.c0_666655658477747,
                               x.x0a), DMul(DctLiterals.c1_24722501298667,
                               x.x0d))),
                   x28 |-> RndF(DAdd(DMul(XNeg(DctLiterals.c0_410524527522357), x.x09),
                               DMul(DctLiterals.c1_35331800117435, x.x0e))),
                   x29 |-> RndF(DSub(DMul(DctLiterals.c0_138617169199091,
                               x.x08), DMul(DctLiterals.c1_40740373752638,
                               x.x0f)))]
      [] k = 5 -> [x2a |-> FAdd(x.x22, x.x25),
                   x2b |-> FAdd(x.x23, x.x24),
                   x2c |-> FSub(x.x22, x.x25),
                   x2d |-> FSub(x.x23, x.x24)]
      [] k = 6 -> [x2e |-> RndF(DMul(DctLiterals.c0_25, FSub(x.x2a, x.x2b))),
                   x2f |-> RndF(DAdd(DMul(DctLiterals.c0_326640741219094,
                               x.x2c), DMul(DctLiterals.c0_135299025036549,
                               x.x2d))),
                   x30 |-> RndF(DSub(DMul(DctLiterals.c0_135299025036549,
                               x.x2c), DMul(DctLiterals.c0_326640741219094,
                               x.x2d))),
                   x31 |-> FAdd(x.x26, x.x29),
                   x32 |-> FAdd(x.x27, x.x28),
                   x33 |-> FSub(x.x26, x.x29),
                   x34 |-> FSub(x.x27, x.x28)]
      [] k = 7 -> [x35 |-> RndF(DMul(DctLiterals.c0_25, FSub(x.x31, x.x32))),
                   x36 |-> RndF(DAdd(DMul(DctLiterals.c0_326640741219094,
                               x.x33), DMul(DctLiterals.c0_135299025036549,
                               x.x34))),
                   x37 |-> RndF(DSub(DMul(DctLiterals.c0_135299025036549,
                               x.x33), DMul(DctLiterals.c0_326640741219094,
                               x.x34)))]
      [] k = 8 ->
           [dst |-> <<RndF(DMul(DctLiterals.c0_25, FAdd(x.x18, x.x19))),
                      RndF(DMul(DctLiterals.c0_25, FAdd(x.x2a, x.x2b))),
                      RndF(DMul(DctLiterals.c0_25, FAdd(x.x1c, x.x1d))),
                      RndF(DMul(DctLiterals.c0_707106781186547, FSub(x.x2f,
                          x.x37))),
                      RndF(DAdd(DMul(DctLiterals.c0_326640741219094, x.x1a),
                          DMul(DctLiterals.c0_135299025036549, x.x1b))),
                      RndF(DMul(DctLiterals.c0_707106781186547, FAdd(x.x2f,
                          x.x37))),
                      RndF(DMul(DctLiterals.c0_707106781186547, FSub(x.x20,
                          x.x21))),
                      RndF(DMul(DctLiterals.c0_707106781186547, FAdd(x.x2e,
                          x.x35))),
                      RndF(DMul(DctLiterals.c0_25, FSub(x.x18, x.x19))),
                      RndF(DMul(DctLiterals.c0_707106781186547, FSub(x.x2e,
                          x.x35))),
                      RndF(DMul(DctLiterals.c0_707106781186547, FAdd(x.x20,
                          x.x21))),
                      RndF(DMul(DctLiterals.c0_707106781186547, FSub(x.x30,
                          x.x36))),
                      RndF(DSub(DMul(DctLiterals.c0_135299025036549, x.x1a),
                          DMul(DctLiterals.c0_326640741219094, x.x1b))),
                      RndF(DMul(DctLiterals.c0_707106781186547, FAdd(x.x30,
                          x.x36))),
                      RndF(DMul(DctLiterals.c0_25, FAdd(x.x1e, x.x1f))),
                      RndF(DMul(DctLiterals.c0_25, FAdd(x.x31, x.x32)))>>]

idct16_1d(k, s, d, add, x) ==
    CASE k = 1 -> [x00 |-> RndF(DMul(DctLiterals.c1_4142135623731, s[1])),
                   x01 |-> RndF(DAdd(DMul(DctLiterals.c1_40740373752638,
                               s[2]), DMul(DctLiterals.c0_138617169199091,
                               s[16]))),
                   x02 |-> RndF(DAdd(DMul(DctLiterals.c1_38703984532215,
                               s[3]), DMul(DctLiterals.c0_275899379282943,
                               s[15]))),
                   x03 |-> RndF(DAdd(DMul(DctLiterals.c1_35331800117435,
                               s[4]), DMul(DctLiterals.c0_410524527522357,
                               s[14]))),
                   x04 |-> RndF(DAdd(DMul(DctLiterals.c1_30656296487638,
                               s[5]), DMul(DctLiterals.c0_541196100146197,
                               s[13]))),
                   x05 |-> RndF(DAdd(DMul(DctLiterals.c1_24722501298667,
                               s[6]), DMul(DctLiterals.c0_666655658477747,
                               s[12]))),
                   x06 |-> RndF(DAdd(DMul(DctLiterals.c1_17587560241936,
                               s[7]), DMul(DctLiterals.c0_785694958387102,
                               s[11]))),
                   x07 |-> RndF(DAdd(DMul(DctLiterals.c1_09320186700176,
                               s[8]), DMul(DctLiterals.c0_897167586342636,
                               s[10]))),
                   x08 |-> RndF(DMul(DctLiterals.c1_4142135623731, s[9])),
                   x09 |-> RndF(DAdd(DMul(XNeg(DctLiterals.c0_897167586342636), s[8]),
                               DMul(DctLiterals.c1_09320186700176, s[10]))),
                   x0a |-> RndF(DSub(DMul(DctLiterals.c0_785694958387102,
                               s[7]), DMul(DctLiterals.c1_17587560241936,
                               s[11]))),
                   x0b |-> RndF(DAdd(DMul(XNeg(DctLiterals.c0_666655658477747), s[6]),
                               DMul(DctLiterals.c1_24722501298667, s[12]))),
                   x0c |-> RndF(DSub(DMul(DctLiterals.c0_541196100146197,
                               s[5]), DMul(DctLiterals.c1_30656296487638,
                               s[13]))),
                   x0d |-> RndF(DAdd(DMul(XNeg(DctLiterals.c0_410524527522357), s[4]),
                               DMul(DctLiterals.c1_35331800117435, s[14]))),
                   x0e |-> RndF(DSub(DMul(DctLiterals.c0_275899379282943,
                               s[3]), DMul(DctLiterals.c1_38703984532215,
                               s[15]))),
                   x0f |-> RndF(DAdd(DMul(XNeg(DctLiterals.c0_138617169199091), s[2]),
                               DMul(DctLiterals.c1_40740373752638, s[16])))]
      [] k = 2 -> [x12 |-> FAdd(x.x00, x.x08),
                   x13 |-> FAdd(x.x01, x.x07),
                   x14 |-> FAdd(x.x02, x.x06),
                   x15 |-> FAdd(x.x03, x.x05),
                   x16 |-> RndF(DMul(DctLiterals.c1_4142135623731, x.x04)),
                   x17 |-> FSub(x.x00, x.x08),
                   x18 |-> FSub(x.x01, x.x07),
                   x19 |-> FSub(x.x02, x.x06),
                   x1a |-> FSub(x.x03, x.x05)]
      [] k = 3 -> [x1d |-> FAdd(x.x12, x.x16),
                   x1e |-> FAdd(x.x13, x.x15),
                   x1f |-> RndF(DMul(DctLiterals.c1_4142135623731, x.x14)),
                   x20 |-> FSub(x.x12, x.x16),
                   x21 |-> FSub(x.x13, x.x15)]
      [] k = 4 -> [x22 |-> RndF(DMul(DctLiterals.c0_25, FSub(x.x1d, x.x1f))),
                   x23 |-> RndF(DMul(DctLiterals.c0_25, FAdd(x.x20, x.x21))),
                   x24 |-> RndF(DMul(DctLiterals.c0_25, FSub(x.x20, x.x21))),
                   x25 |-> RndF(DMul(DctLiterals.c1_4142135623731, x.x17)),
                   x26 |-> RndF(DAdd(DMul(DctLiterals.c1_30656296487638,
                               x.x18), DMul(DctLiterals.c0_541196100146197,
                               x.x1a))),
                   x27 |-> RndF(DMul(DctLiterals.c1_4142135623731, x.x19)),
                   x28 |-> RndF(DAdd(DMul(XNeg(DctLiterals.c0_541196100146197), x.x18),
                               DMul(DctLiterals.c1_30656296487638, x.x1a)))]
      [] k = 5 -> [x29 |-> RndF(DAdd(DMul(DctLiterals.c0_176776695296637,
                               FAdd(x.x25, x.x27)), DMul(DctLiterals.c0_25,
                               x.x26))),
                   x2a |-> RndF(DMul(DctLiterals.c0_25, FSub(x.x25, x.x27))),
                   x2b |-> RndF(DSub(DMul(DctLiterals.c0_176776695296637,
                               FAdd(x.x25, x.x27)), DMul(DctLiterals.c0_25,
                               x.x26))),
                   x2c |-> RndF(DMul(DctLiterals.c0_353553390593274, x.x28))]
      [] k = 6 -> [x1b |-> RndF(DMul(DctLiterals.c0_707106781186547,
                               FSub(x.x2a, x.x2c))),
                   x1c |-> RndF(DMul(DctLiterals.c0_707106781186547,
                               FAdd(x.x2a, x.x2c))),
                   x2d |-> RndF(DMul(DctLiterals.c1_4142135623731, x.x0c)),
                   x2e |-> FAdd(x.x0b, x.x0d),
                   x2f |-> FAdd(x.x0a, x.x0e),
                   x30 |-> FAdd(x.x09, x.x0f),
                   x31 |-> FSub(x.x09, x.x0f),
                   x32 |-> FSub(x.x0a, x.x0e),
                   x33 |-> FSub(x.x0b, x.x0d)]
      [] k = 7 -> [x37 |-> RndF(DMul(DctLiterals.c1_4142135623731, x.x2d)),
                   x38 |-> RndF(DAdd(DMul(DctLiterals.c1_30656296487638,
                               x.x2e), DMul(DctLiterals.c0_541196100146197,
                               x.x30))),
                   x39 |-> RndF(DMul(DctLiterals.c1_4142135623731, x.x2f)),
                   x3a |-> RndF(DAdd(DMul(XNeg(DctLiterals.c0_541196100146197), x.x2e),
                               DMul(DctLiterals.c1_30656296487638, x.x30)))]
      [] k = 8 -> [x3b |-> RndF(DAdd(DMul(DctLiterals.c0_176776695296637,
                               FAdd(x.x37, x.x39)), DMul(DctLiterals.c0_25,
                               x.x38))),
                   x3c |-> RndF(DMul(DctLiterals.c0_25, FSub(x.x37, x.x39))),
                   x3d |-> RndF(DSub(DMul(DctLiterals.c0_176776695296637,
                               FAdd(x.x37, x.x39)), DMul(DctLiterals.c0_25,
                               x.x38))),
                   x3e |-> RndF(DMul(DctLiterals.c0_353553390593274, x.x3a))]
      [] k = 9 -> [x34 |-> RndF(DMul(DctLiterals.c0_707106781186547,
                               FSub(x.x3c, x.x3e))),
                   x35 |-> RndF(DMul(DctLiterals.c0_707106781186547,
                               FAdd(x.x3c, x.x3e))),
                   x3f |-> RndF(DMul(DctLiterals.c1_4142135623731, x.x32)),
                   x40 |-> FAdd(x.x31, x.x33),
                   x41 |-> FSub(x.x31, x.x33)]
      [] k = 10 -> [x42 |-> RndF(DMul(DctLiterals.c0_25, FAdd(x.x3f, x.x40))),
                    x43 |-> RndF(DMul(DctLiterals.c0_25, FSub(x.x3f, x.x40))),
                    x44 |-> RndF(DMul(DctLiterals.c0_353553390593274, x.x41))]
      [] k = 11 -> [x36 |-> XNeg(x.x43),
                    x10 |-> XNeg(x.x34),
                    x11 |-> XNeg(x.x3d)]
      [] k = 12 ->
           [dst |-> <<RndF(DAdd(DAdd(DstTerm(add, d[1]),
                          DMul(DctLiterals.c0_176776695296637, FAdd(x.x1d,
                          x.x1f))), DMul(DctLiterals.c0_25, x.x1e))),
                      RndF(DAdd(DstTerm(add, d[2]),
                          DMul(DctLiterals.c0_707106781186547, FSub(x.x29,
                          x.x11)))),
                      RndF(DAdd(DstTerm(add, d[3]),
                          DMul(DctLiterals.c0_707106781186547, FAdd(x.x29,
                          x.x11)))),
                      RndF(DAdd(DstTerm(add, d[4]),
                          DMul(DctLiterals.c0_707106781186547, FAdd(x.x23,
                          x.x36)))),
                      RndF(DAdd(DstTerm(add, d[5]),
                          DMul(DctLiterals.c0_707106781186547, FSub(x.x23,
                          x.x36)))),
                      RndF(DAdd(DstTerm(add, d[6]),
                          DMul(DctLiterals.c0_707106781186547, FSub(x.x1b,
                          x.x35)))),
                      RndF(DAdd(DstTerm(add, d[7]),
                          DMul(DctLiterals.c0_707106781186547, FAdd(x.x1b,
                          x.x35)))),
                      RndF(DAdd(DstTerm(add, d[8]),
                          DMul(DctLiterals.c0_707106781186547, FAdd(x.x22,
                          x.x44)))),
                      RndF(DAdd(DstTerm(add, d[9]),
                          DMul(DctLiterals.c0_707106781186547, FSub(x.x22,
                          x.x44)))),
                      RndF(DAdd(DstTerm(add, d[10]),
                          DMul(DctLiterals.c0_707106781186547, FSub(x.x1c,
                          x.x10)))),
                      RndF(DAdd(DstTerm(add, d[11]),
                          DMul(DctLiterals.c0_707106781186547, FAdd(x.x1c,
                          x.x10)))),
                      RndF(DAdd(DstTerm(add, d[12]),
                          DMul(DctLiterals.c0_707106781186547, FAdd(x.x24,
                          x.x42)))),
                      RndF(DAdd(DstTerm(add, d[13]),
                          DMul(DctLiterals.c0_707106781186547, FSub(x.x24,
                          x.x42)))),
                      RndF(DAdd(DstTerm(add, d[14]),
                          DMul(DctLiterals.c0_707106781186547, FSub(x.x2b,
                          x.x3b)))),
                      RndF(DAdd(DstTerm(add, d[15]),
                          DMul(DctLiterals.c0_707106781186547, FAdd(x.x2b,
                          x.x3b)))),
                      RndF(DSub(DAdd(DstTerm(add, d[16]),
                          DMul(DctLiterals.c0_176776695296637, FAdd(x.x1d,
                          x.x1f))), DMul(DctLiterals.c0_25, x.x1e)))>>]

\* one iteration of the loop of transform f from group k on: the
\* variables after it
RECURSIVE LoopBody(_, _, _, _, _, _)
LoopBody(f, k, s, d, add, x) ==
    IF k > (CASE f = "fdct8_1d" -> 4 [] f = "idct8_1d" -> 6
              [] f = "fdct16_1d" -> 8 [] f = "idct16_1d" -> 12)
    THEN x
    ELSE CHOOSE r \in {LoopBody(f, k + 1, s, d, add, after) :
             after \in {x @@ (CASE f = "fdct8_1d" -> fdct8_1d(k, s, x)
                               [] f = "idct8_1d" -> idct8_1d(k, s, d, add, x)
                               [] f = "fdct16_1d" -> fdct16_1d(k, s, x)
                               [] f = "idct16_1d" -> idct16_1d(k, s, d, add, x))}} : TRUE

\* the line an iteration stores
FdctLine(bs, s) ==
    LoopBody(IF bs = 8 THEN "fdct8_1d" ELSE "fdct16_1d", 1, s, <<>>, 0, <<>>).dst
IdctLine(bs, s, d, add) ==
    LoopBody(IF bs = 8 THEN "idct8_1d" ELSE "idct16_1d", 1, s, d, add, <<>>).dst

\* A block is the sequence of its bs * bs samples, row after row (its
\* linesize is bs).  Line i of an array walked with strides stridea and
\* strideb holds the elements (i - 1) * strideb + (k - 1) * stridea.
Line(a, bs, i, stridea, strideb) ==
    [k \in 1 .. bs |-> a[(i - 1) * strideb + (k - 1) * stridea + 1]]

\* the line and the place in it of element j of an array walked so
LineOf(j, bs, strideb) == (((j - 1) \div strideb) % bs) + 1
PlaceOf(j, bs, stridea) == (((j - 1) \div stridea) % bs) + 1

\* fdctN_1d(dst, src, dst_stridea, dst_strideb, src_stridea, src_strideb):
\* the array dst after the call
RECURSIVE FdctLines(_, _, _, _, _)
FdctLines(bs, src, src_stridea, src_strideb, i) ==
    IF i > bs THEN <<>>
    ELSE <<FdctLine(bs, Line(src, bs, i, src_stridea, src_strideb))>>
         \o FdctLines(bs, src, src_stridea, src_strideb, i + 1)

Fdct1d(bs, src, dst_stridea, dst_strideb, src_stridea, src_strideb) ==
    CHOOSE r \in {[j \in 1 .. (bs * bs) |->
                      out[LineOf(j, bs, dst_strideb)][PlaceOf(j, bs, dst_stridea)]] :
                     out \in {FdctLines(bs, src, src_stridea, src_strideb, 1)}} : TRUE

\* idctN_1d(dst, src, dst_stridea, dst_strideb, src_stridea, src_strideb,
\* add): the array dst after the call
RECURSIVE IdctLines(_, _, _, _, _, _, _, _, _)
IdctLines(bs, dst, src, dst_stridea, dst_strideb, src_stridea, src_strideb, add, i) ==
    IF i > bs THEN <<>>
    ELSE <<IdctLine(bs, Line(src, bs, i, src_stridea, src_strideb),
                    Line(dst, bs, i, dst_stridea, dst_strideb), add)>>
         \o IdctLines(bs, dst, src, dst_stridea, dst_strideb, src_stridea,
                      src_strideb, add, i + 1)

Idct1d(bs, dst, src, dst_stridea, dst_strideb, src_stridea, src_strideb, add) ==
    CHOOSE r \in {[j \in 1 .. (bs * bs) |->
                      out[LineOf(j, bs, dst_strideb)][PlaceOf(j, bs, dst_stridea)]] :
                     out \in {IdctLines(bs, dst, src, dst_stridea, dst_strideb,
                                        src_stridea, src_strideb, add, 1)}} : TRUE

ZeroBlock(bs) == [j \in 1 .. (bs * bs) |-> XZero]

\* The blocks the transforms are explored on: sample (r, c) is
\* Shape(jr, r) * Shape(jc, c) * k * 2^e.  The shapes are a constant line,
\* a ramp, an alternation, an impulse and textures.
Shape(j, i) ==
    IF j = 0 THEN 1
    ELSE IF j = 1 THEN i
    ELSE IF j = 2 THEN (IF i % 2 = 0 THEN 1 ELSE -1)
    ELSE IF j = 3 THEN (IF i = 3 THEN 1 ELSE 0)
    ELSE ((i * i * j) % 11) - 5

Tile(bs, jr, jc, k, e) ==
    [j \in 1 .. (bs * bs) |->
        LET v == Shape(jr, ((j - 1) \div bs) + 1)
                 * Shape(jc, ((j - 1) % bs) + 1) * k
        IN  IF v >= 0 THEN XPow(1, v, e) ELSE XPow(-1, -v, e)]

\* amplitudes k * 2^e: pixel-sized samples, samples near the ends of the
\* moderate range, and samples near the largest float
Amplitudes ==
    <<<<1, 0>>, <<MaxByte, 0>>, <<1, -SmallExp>>, <<1, MaxExp>>, <<1, HugeExp>>>>

\* the shapes of the rows and of the columns of a block
ShapePairs ==
    {<<j, (j + d) % (NumShapes + 1)>> : j \in 0 .. NumShapes, d \in 0 .. 1}

\* blocks of 8 x 8 take every amplitude, blocks of 16 x 16 one each
AmplitudesOf(bs, p) ==
    IF bs = 8 THEN {Amplitudes[i] : i \in DOMAIN Amplitudes}
    ELSE {Amplitudes[((p[1] + p[2]) % Len(Amplitudes)) + 1]}

Tiles(bs) ==
    LET all == {Tile(bs, pa[1][1], pa[1][2], pa[2][1], pa[2][2]) :
                   pa \in {q \in ShapePairs \X {Amplitudes[i] :
                                                   i \in DOMAIN Amplitudes} :
                              q[2] \in AmplitudesOf(bs, q[1])}}
    IN  {t \in all : \A j \in DOMAIN t : IsFloat(t[j])}

\* filter_freq_8 / filter_freq_16 on one block b, statement by statement.
\* sigma is 0, so the loop over the coefficients between the forward and
\* the inverse transform changes none (no FFABS(*b) is < 0).  dst is the
\* destination plane right after filter_plane's memset.

\* fdctN_1d(tmp_block1, src, 1, bsize, 1, src_linesize)
fdct_rows(b) ==
    /\ phase = "inited"
    /\ dct_pc = "none"
    /\ src_block' = b
    /\ dst_block' = ZeroBlock(bsize)
    /\ tmp_block1' = Fdct1d(bsize, b, 1, bsize, 1, bsize)
    /\ dct_pc' = "fdct_rows"
    /\ UNCHANGED <<phase, ret, opt_overlap, ctxvars, inlink, geomvars,
                   framevars, blkvars, heapvars, tmp_block2, lines_back,
                   pxvars, fpvars>>

\* the inverse transform applied right to the output of the forward one,
\* line by line, with add = 0
idct_lines_back ==
    /\ dct_pc = "fdct_rows"
    /\ lines_back' = Idct1d(bsize, ZeroBlock(bsize), tmp_block1,
                            1, bsize, 1, bsize, 0)
    /\ dct_pc' = "lines_back"
    /\ UNCHANGED <<phase, ret, opt_overlap, ctxvars, inlink, geomvars,
                   framevars, blkvars, heapvars, src_block, tmp_block1,
                   tmp_block2, dst_block, pxvars, fpvars>>

\* fdctN_1d(tmp_block2, tmp_block1, bsize, 1, bsize, 1)
fdct_columns ==
    /\ dct_pc = "fdct_rows"
    /\ tmp_block2' = Fdct1d(bsize, tmp_block1, bsize, 1, bsize, 1)
    /\ dct_pc' = "fdct_columns"
    /\ UNCHANGED <<phase, ret, opt_overlap, ctxvars, inlink, geomvars,
                   framevars, blkvars, heapvars, src_block, tmp_block1,
                   dst_block, lines_back, pxvars, fpvars>>

\* idctN_1d(tmp_block1, tmp_block2, 1, bsize, 1, bsize, 0)
idct_rows ==
    /\ dct_pc = "fdct_columns"
    /\ tmp_block1' = Idct1d(bsize, tmp_block1, tmp_block2,
                            1, bsize, 1, bsize, 0)
    /\ dct_pc' = "idct_rows"
    /\ UNCHANGED <<phase, ret, opt_overlap, ctxvars, inlink, geomvars,
                   framevars, blkvars, heapvars, src_block, tmp_block2,
                   dst_block, lines_back, pxvars, fpvars>>

\* idctN_1d(dst, tmp_block1, dst_linesize, 1, bsize, 1, 1)
idct_columns ==
    /\ dct_pc = "idct_rows"
    /\ dst_block' = Idct1d(bsize, dst_block, tmp_block1,
                           bsize, 1, bsize, 1, 1)
    /\ dct_pc' = "idct_columns"
    /\ UNCHANGED <<phase, ret, opt_overlap, ctxvars, inlink, geomvars,
                   framevars, blkvars, heapvars, src_block, tmp_block1,
                   tmp_block2, lines_back, pxvars, fpvars>>

(* ------------------------------------------------------------------ *)
(* color_decorrelation and color_correlation on one pixel               *)

\* the float literals DCT3X3_i_j: the floats nearest to the decimals
DCT3X3_0_0 == XPow(1, 9686330, -24)
DCT3X3_0_1 == XPow(1, 9686330, -24)
DCT3X3_0_2 == XPow(1, 9686330, -24)
DCT3X3_1_0 == XPow(1, 11863283, -24)
DCT3X3_1_2 == XPow(-1, 11863283, -24)
DCT3X3_2_0 == XPow(1, 13698540, -25)
DCT3X3_2_1 == XPow(-1, 13698540, -24)
DCT3X3_2_2 == XPow(1, 13698540, -25)

\* DECLARE_COLOR_FUNCS(rgb, 0, 1, 2), DECLARE_COLOR_FUNCS(bgr, 2, 1, 0): the
\* offsets r, g, b of the channels in a pixel
ChannelOffsets(name) == IF name = "rgb" THEN <<0, 1, 2>> ELSE <<2, 1, 0>>

\* color_decorrelation, the body of the loop over x: the samples
\* dstp_r[x], dstp_g[x], dstp_b[x] of the pixel with bytes p;
\* a byte times a float literal is a float product, the sums are float sums
DecorrelatePixel(p, r, g, b) ==
    <<FAdd(FAdd(FMul(XInt(p[r + 1]), DCT3X3_0_0),
                FMul(XInt(p[g + 1]), DCT3X3_0_1)),
           FMul(XInt(p[b + 1]), DCT3X3_0_2)),
      FAdd(FMul(XInt(p[r + 1]), DCT3X3_1_0),
           FMul(XInt(p[b + 1]), DCT3X3_1_2)),
      FAdd(FAdd(FMul(XInt(p[r + 1]), DCT3X3_2_0),
                FMul(XInt(p[g + 1]), DCT3X3_2_1)),
           FMul(XInt(p[b + 1]), DCT3X3_2_2))>>

\* av_clip_uint8(int a)
av_clip_uint8(a) == IF a < 0 THEN 0 ELSE IF a > MaxByte THEN MaxByte ELSE a

\* color_correlation, the body of the loop over x: the bytes dstp[0..2]
\* written from the samples src_r[x], src_g[x], src_b[x]; the float sum
\* is converted to the int parameter of av_clip_uint8, which discards its
\* fraction
CorrelatePixel(sp, r, g, b) ==
    LET vr == av_clip_uint8(XTrunc(
                  FAdd(FAdd(FMul(sp[1], DCT3X3_0_0), FMul(sp[2], DCT3X3_1_0)),
                       FMul(sp[3], DCT3X3_2_0))))
        vg == av_clip_uint8(XTrunc(
                  FAdd(FMul(sp[1], DCT3X3_0_1), FMul(sp[3], DCT3X3_2_1))))
        vb == av_clip_uint8(XTrunc(
                  FAdd(FAdd(FMul(sp[1], DCT3X3_0_2), FMul(sp[2], DCT3X3_1_2)),
                       FMul(sp[3], DCT3X3_2_2))))
    IN  [i \in 1 .. 3 |->
            IF i = r + 1 THEN vr ELSE IF i = g + 1 THEN vg ELSE vb]

\* byte values near 0, near the middle and near MaxByte
PixelLevels ==
    (0 .. NearLevels) \cup ((MaxByte - NearLevels) .. MaxByte)
    \cup (((MaxByte + 1) \div 2 - NearLevels) ..
          ((MaxByte + 1) \div 2 + NearLevels))

\* s->color_decorrelation on a frame, followed for one pixel with bytes p
color_decorrelation(p) ==
    /\ phase = "configured"
    /\ srcp = <<>>
    /\ srcp' = p
    /\ px_planes' = LET o == ChannelOffsets(color_funcs)
                    IN  DecorrelatePixel(p, o[1], o[2], o[3])
    /\ UNCHANGED <<phase, ret, opt_overlap, ctxvars, inlink, geomvars,
                   framevars, blkvars, heapvars, dctvars, dstp, fpvars>>

\* s->color_correlation on the samples color_decorrelation produced
color_correlation ==
    /\ phase = "configured"
    /\ srcp # <<>>
    /\ dstp = <<>>
    /\ dstp' = LET o == ChannelOffsets(color_funcs)
               IN  CorrelatePixel(px_planes, o[1], o[2], o[3])
    /\ UNCHANGED <<phase, ret, opt_overlap, ctxvars, inlink, geomvars,
                   framevars, blkvars, heapvars, dctvars, srcp, px_planes,
                   fpvars>>

(* ------------------------------------------------------------------ *)
(* filter_frame                                                         *)

\* can the installed routine change a coefficient at all?
CanModify ==
    \E c \in CoefValues : FilterFreqFunc(filter_freq_func, <<c>>) # <<c>>

\* color_decorrelation: the plane sample at pos is computed from the input
\* pixel at pos[2] * linesize + pos[1]; a read past the buffer is
\* indeterminate
ColorDecorrelation(pos, in_ls, in_size) ==
    LET a == pos[2] * in_ls + pos[1]
    IN  IF a < in_size THEN a ELSE GARBAGE

\* the block positions of filter_plane's sweep: its two for loops
FilterSweep(w, h, bs, st) ==
    LoopFrom0(w - bs + 1, st) \X LoopFrom0(h - bs + 1, st)

\* filter_plane: dst is zeroed, every block of the sweep adds its inverse
\* transform to its footprint, then every sample is multiplied by its
\* weight.  With the inverse transform the exact inverse of the forward
\* one, an unmodified block adds the source sample itself.
FilterPlane(in_ls, in_size, w, h, zeroing) ==
    LET sweep == FilterSweep(w, h, bsize, step)
    IN  [pos \in Region(w, h) |->
            LET k == Cardinality({b \in sweep : Covers(b, bsize, pos)})
            IN  <<ColorDecorrelation(pos, in_ls, in_size),
                  k * weights[pos][1], weights[pos][2], zeroing /\ k > 0>>]

\* the sample has the value of the source sample
SampleIsSource(s) == ~s[4] /\ s[3] # 0 /\ s[2] = s[3]

\* color_correlation of the three plane samples at one position: the
\* input pixel again when the samples are the source's, an indeterminate
\* byte when they are not numbers or were read past the input, a denoised
\* pixel otherwise
CorrelatedPixel(s) ==
    IF s[3] = 0 \/ s[1] = GARBAGE THEN GARBAGE
    ELSE IF SampleIsSource(s) THEN s[1]
    ELSE DENOISED

\* a pixel copied from the input address a
CopiedFrom(a, in_size) == IF a < in_size THEN a ELSE GARBAGE

\* the rows y < rows whose pixels first .. first + len - 1 lie on address a
\* of a buffer with linesize ls
RowsOn(a, ls, rows, first, len) ==
    {y \in 0 .. (rows - 1) : a - y * ls \in first .. (first + len - 1)}

\* The content of the output buffer at address a when filter_frame returns.
\* In program order: color_correlation writes pr_width pixels of each row
\* y < pr_height; if (hpad) the pixels behind them are copied in each of
\* these rows; if (vpad) the whole rows from pr_height on are copied.  Of
\* the writes that land on a the last one stays.
OutputCell(a, direct, in_ls, out_ls, in_size, planes) ==
    LET hp == inlink.w - pr_width
        vp == inlink.h - pr_height
        vrows == IF ~direct /\ vp > 0
                 THEN {y \in RowsOn(a, out_ls, inlink.h, 0, inlink.w) :
                          y >= pr_height}
                 ELSE {}
        hrows == IF ~direct /\ hp > 0
                 THEN RowsOn(a, out_ls, pr_height, pr_width, hp)
                 ELSE {}
        crows == RowsOn(a, out_ls, pr_height, 0, pr_width)
    IN  IF vrows # {}
        THEN LET y == MaxOf(vrows)
             IN  CopiedFrom(y * in_ls + (a - y * out_ls), in_size)
        ELSE IF hrows # {}
        THEN LET y == MaxOf(hrows)
             IN  CopiedFrom(y * in_ls + (a - y * out_ls), in_size)
        ELSE IF crows # {}
        THEN LET y == MaxOf(crows)
             IN  CorrelatedPixel(planes[<<a - y * out_ls, y>>])
        ELSE IF direct THEN a
        ELSE UNINIT

\* memcpy(dstp, srcp, hpad) with hpad < 0: the size converts to a huge
\* size_t
NegativeMemcpy == inlink.w - pr_width < 0

\* an access of the frame's rows past the end of a buffer of h * ls pixels:
\* the last pixel color_decorrelation reads / color_correlation writes,
\* the last row the horizontal padding copy touches
PastBuffer(ls) ==
    (pr_height - 1) * ls + pr_width - 1 >= inlink.h * ls

\* if (av_frame_is_writable(in)) out = in; else out = ff_get_video_buffer():
\* is there no output frame to write to?
OutputBufferMissingWritableToo(direct, alloc_ok) == ~alloc_ok
OutputBufferMissing(direct, alloc_ok) == ~direct /\ ~alloc_ok

\* One frame per instance is explored: filter_frame reads no field that an
\* earlier call wrote except the planes, which it overwrites.  The filter
\* downstream accepts the frame (ff_filter_frame returns 0).
filter_frame(direct, in_pad, out_pad, alloc_ok, zeroing, crash) ==
    /\ phase = "configured"
    /\ frame.kind = "none"
    /\ zeroing \in {FALSE, CanModify}
    /\ LET in_ls == inlink.w + in_pad
           out_ls == IF direct THEN in_ls ELSE inlink.w + out_pad
           in_size == inlink.h * in_ls
           out_size == inlink.h * out_ls
           ub == IF PastBuffer(in_ls) THEN TRUE ELSE PastBuffer(out_ls)
           neg == ~direct /\ NegativeMemcpy
       IN  IF OutputBufferMissing(direct, alloc_ok)
           THEN \* ff_get_video_buffer failed
                /\ ret' = ENOMEM
                /\ frame' = [kind |-> "enomem", direct |-> direct]
                /\ UNCHANGED <<phase, cbuf1>>
           ELSE IF crash
           THEN \* undefined behaviour ends the process
                /\ IF ub THEN TRUE ELSE neg
                /\ phase' = "crashed"
                /\ frame' = [kind |-> "crashed"]
                /\ UNCHANGED <<ret, cbuf1>>
           ELSE \* the planes are filtered, the pixels written, and the
                \* frame is handed to ff_filter_frame
                /\ ~neg
                /\ cbuf1' = FilterPlane(in_ls, in_size, pr_width, pr_height,
                                        zeroing)
                /\ frame' = [kind |-> "done", direct |-> direct,
                             in_ls |-> in_ls, out_ls |-> out_ls, ub |-> ub,
                             out |-> [a \in 0 .. (out_size - 1) |->
                                        OutputCell(a, direct, in_ls, out_ls,
                                                   in_size, cbuf1')]]
                /\ ret' = 0
                /\ UNCHANGED phase
    /\ UNCHANGED <<opt_overlap, ctxvars, inlink, geomvars, blkvars, heapvars,
                   stepvars>>

(* ------------------------------------------------------------------ *)
(* filter_plane, loop iteration by loop iteration                       *)
(*                                                                      *)
(* filter_frame above takes a frame in one step.  Here one call of      *)
(* filter_plane on one destination plane cbuf[1][p] is followed through *)
(* its three parts: the memset, one iteration of the outer loop of the  *)
(* block sums at a time, one iteration of the outer loop of the average *)
(* at a time.  The three planes go the same way, each in its own        *)
(* buffer.  A cell of the plane holds how many blocks were added to it  *)
(* (acc) and how often it was multiplied by its weight (mul) since it   *)
(* was last zeroed, and whether what it holds is older than this call   *)
(* (stale): left by an earlier call, or never written.                  *)

ZeroCell == [acc |-> 0, mul |-> 0, stale |-> FALSE]
StaleCell == [acc |-> 0, mul |-> 0, stale |-> TRUE]

\* the cell of dst[y * dst_linesize + x], and back
CellAt(x, y, dst_linesize) == y * dst_linesize + x + 1
CellX(i, dst_linesize) == (i - 1) % dst_linesize
CellY(i, dst_linesize) == (i - 1) \div dst_linesize

\* memset(dst, 0, h * dst_linesize * sizeof(*dst)): the cells it zeroes
MemsetCellsShort(h, dst_linesize) == 1 .. ((h - 1) * dst_linesize)
MemsetCells(h, dst_linesize) == 1 .. (h * dst_linesize)

\* for (v = 0; v < dim - s->bsize + 1; v += s->step): the loop condition
SweepContinuesPartial(v, dim, bs) == v < dim
SweepContinues(v, dim, bs) == v < dim - bs + 1

\* the values x takes in the inner loop of the block sums, from x on
RECURSIVE SweepXs(_, _)
SweepXs(x, w) ==
    IF SweepContinues(x, w, bsize) THEN <<x>> \o SweepXs(x + step, w)
    ELSE <<>>

\* reset block sums
filter_plane_memset ==
    /\ phase = "configured"
    /\ fp_pc \in {"none", "returned"}
    /\ fp_calls < MaxPlaneCalls
    /\ fp_dst' = [i \in 1 .. (pr_height * p_linesize) |->
                     IF i \in MemsetCells(pr_height, p_linesize) THEN ZeroCell
                     ELSE IF fp_dst = <<>> THEN StaleCell
                     ELSE [fp_dst[i] EXCEPT !.stale = TRUE]]
    /\ fp_blocks' = <<>>
    /\ fp_y' = 0
    /\ fp_pc' = "sums"
    /\ UNCHANGED <<phase, ret, opt_overlap, ctxvars, inlink, geomvars,
                   framevars, blkvars, heapvars, dctvars, pxvars, fp_calls>>

\* block dct sums: the loop condition on y and, while it holds, the inner
\* loop over x; s->filter_freq_func adds a block to dst at (x, y)
filter_plane_sums ==
    /\ phase = "configured"
    /\ fp_pc = "sums"
    /\ IF SweepContinues(fp_y, pr_height, bsize)
       THEN LET xs == SweepXs(0, pr_width)
                row == [k \in DOMAIN xs |-> <<xs[k], fp_y>>]
            IN  /\ fp_blocks' = fp_blocks \o row
                /\ fp_dst' =
                       [i \in DOMAIN fp_dst |->
                           LET pos == <<CellX(i, p_linesize),
                                        CellY(i, p_linesize)>>
                               k == Cardinality({j \in DOMAIN row :
                                        Covers(row[j], bsize, pos)})
                           IN  [fp_dst[i] EXCEPT !.acc = @ + k]]
                /\ fp_y' = fp_y + step
                /\ UNCHANGED fp_pc
       ELSE \* dst = dst0
            /\ fp_pc' = "average"
            /\ fp_y' = 0
            /\ UNCHANGED <<fp_dst, fp_blocks>>
    /\ UNCHANGED <<phase, ret, opt_overlap, ctxvars, inlink, geomvars,
                   framevars, blkvars, heapvars, dctvars, pxvars, fp_calls>>

\* average blocks: the loop condition on y and, while it holds, the inner
\* loop  dst[x] *= weights[x]  over x < w; when it fails the call returns
filter_plane_average ==
    /\ phase = "configured"
    /\ fp_pc = "average"
    /\ IF fp_y < pr_height
       THEN /\ fp_dst' =
                   [i \in DOMAIN fp_dst |->
                       IF /\ CellY(i, p_linesize) = fp_y
                          /\ CellX(i, p_linesize) < pr_width
                       THEN [fp_dst[i] EXCEPT !.mul = @ + 1]
                       ELSE fp_dst[i]]
            /\ fp_y' = fp_y + 1
            /\ UNCHANGED <<fp_pc, fp_calls>>
       ELSE /\ fp_pc' = "returned"
            /\ fp_calls' = fp_calls + 1
            /\ UNCHANGED <<fp_dst, fp_y>>
    /\ UNCHANGED <<phase, ret, opt_overlap, ctxvars, inlink, geomvars,
                   framevars, blkvars, heapvars, dctvars, pxvars, fp_blocks>>

(* ------------------------------------------------------------------ *)
(* uninit                                                               *)

\* av_free of s->weights and of the six s->cbuf[i][j]: the block a field
\* points to is freed once more (av_free(NULL) does nothing); the fields
\* keep their values
HeapAfterUninit(hp, pt) ==
    [i \in DOMAIN hp |-> hp[i] + Cardinality({f \in Fields : pt[f] = i})]

\* the weights and the planes are freed; no frame is in flight any more
uninit ==
    /\ phase \in {"inited", "init_failed", "format_refused", "configured",
                 "config_failed"}
    /\ phase' = "closed"
    /\ heap' = HeapAfterUninit(heap, ptr)
    /\ weights' = <<>>
    /\ cbuf1' = <<>>
    /\ frame' = NoFrame
    /\ UNCHANGED <<ret, opt_overlap, ctxvars, inlink, pr_width, pr_height,
                   p_linesize, color_funcs, blkvars, ptr, stepvars>>

(* ------------------------------------------------------------------ *)
(* specifications                                                       *)

\* the widths config_input is explored with where the link is configured
\* once: none after the first call (SpecLife configures the link anew)
UntilConfigured(widths) == IF heap = <<>> THEN widths ELSE {}

\* the life of a filter instance
Init == OptionsSet(MIN_NBITS .. MAX_NBITS, OverlapSample, {0, MaxSigmaQ},
                   ExprSample)

Next ==
    \/ init
    \/ \E f \in OfferedFmts : negotiate_format(f)
    \/ \E w \in UntilConfigured(1 .. MaxW), h \in MinH .. MaxH,
          fail \in AllocFailures :
          config_input(w, h, fail)
    \/ \E pad \in 0 .. MaxPad, zeroing \in BOOLEAN, crash \in BOOLEAN :
          \* a writable input frame is filtered in place
          filter_frame(TRUE, pad, pad, TRUE, zeroing, crash)
    \/ \E pad \in 0 .. MaxPad :
          \* the same while no buffer could be allocated
          filter_frame(TRUE, pad, pad, FALSE, FALSE, FALSE)
    \/ \E in_pad \in 0 .. MaxPad, out_pad \in 0 .. MaxPad,
          zeroing \in BOOLEAN, crash \in BOOLEAN :
          filter_frame(FALSE, in_pad, out_pad, TRUE, zeroing, crash)
    \/ filter_frame(FALSE, 0, 0, FALSE, FALSE, FALSE)
    \/ uninit

Spec == Init /\ [][Next]_vars

\* the life of an instance whose link is configured more than once
InitLife == OptionsSet(MIN_NBITS .. MAX_NBITS, {OVERLAP_UNSET, 0}, {0}, {NULL})

NextLife ==
    \/ init
    \/ \E f \in OfferedFmts : negotiate_format(f)
    \/ \E w \in (MaxW - 1) .. MaxW, fail \in AllocFailures :
          config_input(w, MaxH, fail)
    \/ filter_frame(TRUE, 0, 0, TRUE, FALSE, FALSE)
    \/ filter_frame(FALSE, 0, 0, FALSE, FALSE, FALSE)
    \/ uninit

SpecLife == InitLife /\ [][NextLife]_vars

\* init over the whole range of its options
InitOptions == OptionsSet(MIN_NBITS .. MAX_NBITS, OverlapRange, 0 .. MaxSigmaQ,
                          ExprStrings)

NextOptions == init \/ uninit

SpecOptions == InitOptions /\ [][NextOptions]_vars

\* the frequency filter on coefficient blocks, after init
InitFreq == OptionsSet(MIN_NBITS .. MAX_NBITS, {OVERLAP_UNSET}, 0 .. MaxSigmaFreqQ,
                       ExprSample)

NextFreq ==
    \/ init
    \/ \E b \in [1 .. NCoef -> CoefValues] : filter_freq_first(b)
    \/ filter_freq_again

SpecFreq == InitFreq /\ [][NextFreq]_vars

\* the transforms of filter_freq on one block, after init
InitDct == OptionsSet(MIN_NBITS .. MAX_NBITS, {OVERLAP_UNSET}, {0}, {NULL})

NextDct ==
    \/ init
    \/ \E b \in (IF dct_pc = "none" THEN Tiles(bsize) ELSE {}) : fdct_rows(b)
    \/ idct_lines_back
    \/ fdct_columns
    \/ idct_rows
    \/ idct_columns

SpecDct == InitDct /\ [][NextDct]_vars

\* the colour conversion of one pixel, forth and back
InitColor == OptionsSet({MIN_NBITS}, {OVERLAP_UNSET}, {0}, {NULL})

NextColor ==
    \/ init
    \/ \E f \in OfferedFmts : negotiate_format(f)
    \/ \E w \in UntilConfigured({MaxW}) : config_input(w, MaxH, "none")
    \/ \E p \in PixelLevels \X PixelLevels \X PixelLevels :
          color_decorrelation(p)
    \/ color_correlation

SpecColor == InitColor /\ [][NextColor]_vars

\* filter_plane on one plane, frame after frame
InitPlane == OptionsSet(MIN_NBITS .. MAX_NBITS, {OVERLAP_UNSET, 0, 6}, {0},
                        {NULL})

NextPlane ==
    \/ init
    \/ \E f \in OfferedFmts : negotiate_format(f)
    \/ \E w \in UntilConfigured((MaxW - 3) .. MaxW), h \in MinH .. MaxH :
          config_input(w, h, "none")
    \/ filter_plane_memset
    \/ filter_plane_sums
    \/ filter_plane_average

SpecPlane == InitPlane /\ [][NextPlane]_vars

(* ------------------------------------------------------------------ *)
(* properties                                                           *)

ThresholdMode == expr = NULL
Configured == phase = "configured"
FrameDone == frame.kind = "done"

\* what the claims call the overlap after the default is put in
EffectiveOverlap == IF opt_overlap = OVERLAP_UNSET THEN 2^n - 1 ELSE opt_overlap

InitSucceeded ==
    \/ phase \in {"inited", "format_refused", "configured", "config_failed",
                  "crashed", "aborted"}
    \/ phase = "closed" /\ filter_freq_func # NULL

\* C1 (as claimed): after config_input the processable dimension is
\* dim - ((dim - bsize) mod step) with a non-negative mod and is a crop of
\* the input dimension, 0 <= dim - processable_dim < step, for the width
\* and for the height, inputs smaller than the block included.
C1_IsCrop(dim, pr) ==
    /\ pr = dim - ((dim - bsize) % step)
    /\ 0 <= dim - pr
    /\ dim - pr < step
C1_ProcessableDimIsCrop ==
    Configured =>
        /\ C1_IsCrop(inlink.w, pr_width)
        /\ C1_IsCrop(inlink.h, pr_height)

\* C2 (as claimed): after config_input succeeds every pixel of the
\* processable region was counted by at least one block of the weight
\* sweep, so the weight is the reciprocal of a counter >= 1.
C2_WeightsCounterPositive ==
    Configured =>
        \A pos \in Region(pr_width, pr_height) :
            weights[pos][1] = 1 /\ weights[pos][2] >= 1

\* C3 (as claimed): at every pixel of the processable region the weight
\* times the number of blocks filter_plane accumulated there is 1.
C3_WeightTimesBlocksIsOne ==
    FrameDone =>
        \A pos \in Region(pr_width, pr_height) :
            cbuf1[pos][3] # 0 /\ cbuf1[pos][2] = cbuf1[pos][3]

\* C4 (as claimed): after filter_frame every output pixel outside the
\* processable region is the input pixel at the same position, on the
\* in-place and on the fresh-buffer path.  Stated for the frames filtered
\* without any access past a buffer.
C4_PaddingIsInput ==
    (FrameDone /\ ~frame.ub) =>
        \A x \in 0 .. (inlink.w - 1), y \in 0 .. (inlink.h - 1) :
            (x >= pr_width \/ y >= pr_height) =>
                frame.out[y * frame.out_ls + x] = y * frame.in_ls + x

\* C5 (as claimed): with sigma = 0 and no expression every sample of
\* filter_plane's output in the processable region has the value of the
\* input sample.
C5_SigmaZeroIsIdentity ==
    (FrameDone /\ ThresholdMode /\ sigma_q = 0) =>
        \A pos \in Region(pr_width, pr_height) : SampleIsSource(cbuf1[pos])

\* C6 (as claimed): in threshold mode a coefficient c comes out as c when
\* |c| >= 3 * sigma and as 0 when |c| < 3 * sigma, compared with the exact
\* value of 3 * sigma.
C6_ExactThreshold ==
    (blk_pass >= 1 /\ ThresholdMode) =>
        \A i \in DOMAIN blk :
            blk_out[i] = IF FFABS(blk[i]) >= 3 * sigma_q THEN blk[i] ELSE 0

\* C7 (as claimed): in threshold mode the DC coefficient (the first of the
\* block) passes unchanged for every block and sigma, as does every
\* coefficient at or above the threshold.
C7_DCAlwaysKept ==
    (blk_pass >= 1 /\ ThresholdMode) =>
        /\ blk_out[1] = blk[1]
        /\ \A i \in DOMAIN blk :
               FFABS(blk[i]) >= 3 * sigma_q => blk_out[i] = blk[i]

\* C7 (amended): in threshold mode every coefficient at or above
\* 3 * sigma passes unchanged, the DC coefficient included; the DC
\* coefficient is not exempt from the rule: like any other it comes out
\* unchanged or zero, and zero when it is below the threshold compared
\* with.
C7_StrongKeptDCNotExempt ==
    (blk_pass >= 1 /\ ThresholdMode) =>
        /\ \A i \in DOMAIN blk :
               /\ FFABS(blk[i]) >= 3 * sigma_q => blk_out[i] = blk[i]
               /\ blk_out[i] \in {blk[i], 0}
        /\ FFABS(blk[1]) < SigmaTh(th_q) * Grid => blk_out[1] = 0

\* C7 witness: a block whose non-zero DC coefficient was zeroed while a
\* coefficient at or above the threshold was kept
C7_Witness ==
    /\ blk_pass >= 1 /\ ThresholdMode /\ sigma_q > 0
    /\ blk[1] # 0 /\ blk_out[1] = 0
    /\ FFABS(blk[2]) >= 3 * sigma_q /\ blk_out[2] = blk[2]

\* C8: thresholding an already thresholded block gives the same block as
\* thresholding once.
C8_ThresholdIdempotent ==
    (blk_pass = 2 /\ ThresholdMode) => blk_out2 = blk_out

\* C8 witness: a second pass over a block of which the first pass zeroed
\* one coefficient and kept another
C8_Witness ==
    /\ blk_pass = 2 /\ ThresholdMode
    /\ \E i \in DOMAIN blk : blk[i] # 0 /\ blk_out[i] = 0
    /\ \E i \in DOMAIN blk : blk_out[i] # 0

NothingSetUp == expr = NULL /\ filter_freq_func = NULL /\ step = 0 /\ th_q = 0

\* C9 (as claimed): init returns an error exactly when the overlap exceeds
\* bsize - 1, and then nothing was parsed, selected or computed.
C9_ErrorIffOverlapTooBig ==
    phase \in {"inited", "init_failed"} =>
        /\ (ret # 0) <=> (EffectiveOverlap > 2^n - 1)
        /\ ret # 0 => NothingSetUp

\* C9 (amended): init returns an error exactly when the overlap exceeds
\* bsize - 1 or a supplied expression does not parse; when the overlap
\* exceeds bsize - 1 the error is EINVAL, and in either case nothing was
\* selected or computed and no expression is held.
C9_ErrorIffOverlapOrExpr ==
    phase \in {"inited", "init_failed"} =>
        /\ (ret # 0) <=> \/ EffectiveOverlap > 2^n - 1
                         \/ expr_str \notin {NULL, "1", "gte(c,2)"}
        /\ (ret # 0) <=> (phase = "init_failed")
        /\ EffectiveOverlap > 2^n - 1 => ret = EINVAL
        /\ ret # 0 => NothingSetUp

\* C9 witness: init refused overlap 8 for 8x8 blocks, with a sigma and an
\* expression given, and set nothing up
C9_Witness ==
    /\ phase = "init_failed" /\ ret = EINVAL
    /\ n = 3 /\ opt_overlap = 8 /\ sigma_q > 0 /\ expr_str = "gte(c,2)"
    /\ NothingSetUp

\* C10: once init has succeeded, 0 <= overlap <= bsize - 1 and
\* step = bsize - overlap lies in 1 .. bsize, with overlap = bsize - 1 and
\* step = 1 when the option was left unset, in every later state.
C10_OverlapStepInvariant ==
    InitSucceeded =>
        /\ bsize = 2^n
        /\ 0 <= overlap /\ overlap <= bsize - 1
        /\ step = bsize - overlap
        /\ 1 <= step /\ step <= bsize
        /\ opt_overlap = OVERLAP_UNSET => (overlap = bsize - 1 /\ step = 1)
        /\ opt_overlap # OVERLAP_UNSET => overlap = opt_overlap

\* C10 witness: a frame was filtered by an instance whose overlap option
\* was left unset
C10_Witness ==
    /\ FrameDone /\ Configured
    /\ opt_overlap = OVERLAP_UNSET /\ overlap = bsize - 1 /\ step = 1

\* C11: after a successful init exactly one attenuation policy is
\* installed, whatever the block size: with an expression the expression
\* routine of the block size, and every coefficient c comes out as
\* c * f(|c|) whatever sigma is; without one the threshold routine of the
\* block size, and every coefficient comes out unchanged or zeroed by the
\* threshold test alone.
C11_OnePolicyActive ==
    phase = "inited" =>
        /\ (expr_str # NULL) <=>
               filter_freq_func \in {"filter_freq_expr_8", "filter_freq_expr_16"}
        /\ (expr_str = NULL) <=>
               filter_freq_func \in {"filter_freq_sigma_8", "filter_freq_sigma_16"}
        /\ (n = 3) <=>
               filter_freq_func \in {"filter_freq_expr_8", "filter_freq_sigma_8"}
        /\ (n = 4) <=>
               filter_freq_func \in {"filter_freq_expr_16", "filter_freq_sigma_16"}
        /\ blk_pass >= 1 =>
               \A i \in DOMAIN blk :
                   blk_out[i] =
                       IF expr_str # NULL
                       THEN blk[i] * AvExprEval(expr_str, FFABS(blk[i]))
                       ELSE IF FFABS(blk[i]) < SigmaTh(th_q) * Grid THEN 0
                       ELSE blk[i]

\* C11 witness: with an expression and a sigma both given, a coefficient
\* the expression keeps came out unchanged although it lies below the
\* sigma threshold, with 16x16 blocks
C11_Witness ==
    /\ phase = "inited" /\ blk_pass >= 1 /\ n = 4
    /\ expr_str = "gte(c,2)" /\ sigma_q > 0
    /\ \E i \in DOMAIN blk :
           /\ 2 * Grid <= FFABS(blk[i])
           /\ FFABS(blk[i]) < SigmaTh(th_q) * Grid
           /\ blk_out[i] = blk[i]

\* C12: a pixel format other than RGB24 and BGR24 is refused while the
\* graph is set up, with an error; the link is never configured for it, no
\* frame is filtered, and the format is never met by config_input or
\* filter_frame.
C12_OtherFormatRefusedAtSetup ==
    inlink.format \notin {NULL, "RGB24", "BGR24"} =>
        /\ phase \in {"format_refused", "closed"}
        /\ ret # 0
        /\ frame.kind = "none"
        /\ weights = <<>> /\ color_funcs = NULL
        /\ inlink.w = 0 /\ inlink.h = 0

\* C12 witness: YUV420P was offered to an instance whose init succeeded,
\* and was refused
C12_Witness ==
    /\ inlink.format = "YUV420P"
    /\ phase = "format_refused" /\ ret # 0
    /\ filter_freq_func # NULL

C14_FailedState ==
    /\ phase = "config_failed" =>
           /\ ret = ENOMEM
           /\ frame = NoFrame
           /\ (weights = <<>> \/ \E f \in Fields : ptr[f] = 0)
           /\ pr_width = ProcessableDim(inlink.w, bsize, step)
           /\ pr_height = ProcessableDim(inlink.h, bsize, step)
           /\ p_linesize >= pr_width /\ p_linesize % PLANE_ALIGN = 0
    /\ Configured =>
           /\ \A f \in Fields : ptr[f] # 0 /\ heap[ptr[f]] = 0
           /\ DOMAIN weights = Region(pr_width, pr_height)
C14_FailedStep ==
    /\ phase' = "config_failed" => (weights' = weights \/ weights' = <<>>)
    /\ phase = "config_failed" =>
           /\ frame' = NoFrame /\ cbuf1' \in {cbuf1, <<>>}
           /\ phase' \in {"config_failed", "configured", "closed"}
           /\ phase' = "configured" => (ret' = 0 /\ weights' # <<>>)
C14_AllocFailureLeavesUnusable == [](C14_FailedState) /\ [][C14_FailedStep]_vars

\* C14 witness: after a successful configuration the link was configured
\* anew and the allocation of the counters failed: all seven buffers are
\* allocated, no weight map is computed
C14_Witness ==
    /\ phase = "config_failed" /\ ret = ENOMEM
    /\ Len(heap) = 2 * Len(AllocSites) - 1
    /\ \A f \in Fields : ptr[f] # 0
    /\ weights = <<>>

\* C19 (as claimed): when uninit has returned, every buffer config_input
\* allocated in the life of the instance has been freed exactly once,
\* however often config_input ran and wherever it failed.
C19_AllBuffersFreedOnce ==
    phase = "closed" => \A i \in DOMAIN heap : heap[i] = 1

(* ------------------------------------------------------------------ *)
(* C15: the transforms' round trip                                      *)

XMax(x, y) ==
    CHOOSE r \in {IF XCmp(v, w) > 0 THEN v ELSE w : v \in {x}, w \in {y}} : TRUE

\* the largest magnitude among the k samples of a from a[lo] on
RECURSIVE MaxAbsFrom(_, _, _)
MaxAbsFrom(a, lo, k) ==
    IF k = 0 THEN XZero
    ELSE XMax(XAbs(a[lo + k - 1]), MaxAbsFrom(a, lo, k - 1))

\* the largest magnitude in the first k rows of a block
RECURSIVE BlockMaxFrom(_, _, _)
BlockMaxFrom(a, bs, k) ==
    IF k = 0 THEN XZero
    ELSE XMax(MaxAbsFrom(a, (k - 1) * bs + 1, bs), BlockMaxFrom(a, bs, k - 1))

\* x is a number and differs from y by at most m / ToleranceInv
Within(x, y, m) ==
    /\ XIsFinite(x)
    /\ XCmp(XMul(XInt(ToleranceInv), XAbs(XSub(x, y))), m) <= 0

\* a magnitude of 0, or one from 2^-MaxMagExp to 2^MaxMagExp
Moderate(m) ==
    \E v \in {m} :
        \/ XIsZero(v)
        \/ /\ XCmp(v, XPow(1, 1, -MaxMagExp)) >= 0
           /\ XCmp(v, XPow(1, 1, MaxMagExp)) <= 0

\* line i of the block came back from the two 1D transforms within the
\* tolerance, relative to the largest magnitude m of the line
LineBack(i, m, moderate_only) ==
    \A v \in {m} :
        (moderate_only => Moderate(v)) =>
            \A k \in 1 .. bsize :
                Within(lines_back[(i - 1) * bsize + k],
                       src_block[(i - 1) * bsize + k], v)

\* the block came back from the two 2D transforms within the tolerance,
\* relative to its largest magnitude m
BlockBack(m, moderate_only) ==
    \A v \in {m} :
        (moderate_only => Moderate(v)) =>
            \A j \in 1 .. (bsize * bsize) :
                Within(dst_block[j], src_block[j], v)

\* C15 as stated: for block sizes 8 and 16, the inverse 1D transform with
\* add = 0 of the forward 1D transform of any line of finite floats is the
\* line again within a small relative tolerance, and the two-pass inverse
\* 2D transform of the two-pass forward 2D transform of any block is the
\* block again.  Lines and blocks near the largest float overflow in the
\* forward transform and come back as NaN.
C15_RoundTripAnyFinite ==
    /\ dct_pc = "lines_back" =>
           \A i \in 1 .. bsize :
               LineBack(i, MaxAbsFrom(src_block, (i - 1) * bsize + 1, bsize),
                        FALSE)
    /\ dct_pc = "idct_columns" =>
           BlockBack(BlockMaxFrom(src_block, bsize, bsize), FALSE)

\* C15 amended: for a line (a block) of floats whose largest magnitude m is
\* 0 or lies between 2^-100 and 2^100, every sample comes back as a number
\* that differs from the input sample by at most m / 10000.
C15_RoundTripModerate ==
    /\ dct_pc = "lines_back" =>
           \A i \in 1 .. bsize :
               LineBack(i, MaxAbsFrom(src_block, (i - 1) * bsize + 1, bsize),
                        TRUE)
    /\ dct_pc = "idct_columns" =>
           BlockBack(BlockMaxFrom(src_block, bsize, bsize), TRUE)

\* a 16 x 16 block of moderate samples went through both 2D transforms and
\* the roundings left a trace in it
C15_Witness ==
    /\ dct_pc = "idct_columns"
    /\ bsize = 16
    /\ \E m \in {BlockMaxFrom(src_block, bsize, bsize)} :
           Moderate(m) /\ ~XIsZero(m)
    /\ \E j \in 1 .. (bsize * bsize) : XCmp(dst_block[j], src_block[j]) # 0

(* ------------------------------------------------------------------ *)
(* C16: the colour round trip                                           *)

\* C16 as stated: for every pixel with bytes in 0 .. 255 and both channel
\* orders, color_correlation of the samples color_decorrelation made of
\* the pixel writes exactly the bytes of the pixel.  It does not: a sum
\* that the float roundings left just below the byte value loses 1 when
\* its fraction is discarded.
C16_ColorRoundTripExact == dstp # <<>> => dstp = srcp

(* ------------------------------------------------------------------ *)
(* C17, C18: the parts of filter_plane and its block sweep              *)

\* the blocks of the whole sweep that lie over the cell at pos
BlocksOver(pos) ==
    Cardinality({b \in FilterSweep(pr_width, pr_height, bsize, step) :
                    Covers(b, bsize, pos)})

\* C17: within one filter_plane call every cell of the destination plane is
\* zeroed before the first block is added (no cell holds anything older
\* than the call once the sums begin), no cell is multiplied while blocks
\* are still being added, a cell that was multiplied holds all the blocks
\* of the sweep that lie over it, no cell is multiplied twice, and when
\* the call returns every cell of the processable region was multiplied
\* once and no other cell at all; this holds for every call, so nothing a
\* call accumulated is left in the plane of the next.
C17_PlanePartsOrdered ==
    /\ fp_pc \in {"sums", "average", "returned"} =>
           \A i \in DOMAIN fp_dst : ~fp_dst[i].stale
    /\ fp_pc = "sums" => \A i \in DOMAIN fp_dst : fp_dst[i].mul = 0
    /\ \A i \in DOMAIN fp_dst :
           /\ fp_dst[i].mul <= 1
           /\ fp_dst[i].mul > 0 =>
                  fp_dst[i].acc = BlocksOver(<<CellX(i, p_linesize),
                                               CellY(i, p_linesize)>>)
    /\ fp_pc = "returned" =>
           \A i \in DOMAIN fp_dst :
               fp_dst[i].mul =
                   IF <<CellX(i, p_linesize), CellY(i, p_linesize)>>
                          \in Region(pr_width, pr_height)
                   THEN 1 ELSE 0

\* a second call returned on a plane whose blocks overlap
C17_Witness ==
    /\ fp_pc = "returned"
    /\ fp_calls > 1
    /\ \E i \in DOMAIN fp_dst : fp_dst[i].acc > 1

\* the positions {0, step, ..., dim - bsize}
SweepAxis(dim) == {v \in 0 .. (dim - bsize) : v % step = 0}

\* C18: the block sweep of filter_plane visits exactly the positions (x, y)
\* with x in {0, step, ..., pr_width - bsize} and y in {0, step, ...,
\* pr_height - bsize}, each once, and they are the positions of the sweep
\* in config_input; every visited block lies within the processable
\* region and within the plane buffer; and where there is a block at all
\* the last one in each axis ends at the edge of the processable region.
C18_SweepPositions ==
    fp_pc # "none" =>
    LET visited == {fp_blocks[k] : k \in DOMAIN fp_blocks}
    IN  /\ \A b \in visited :
               /\ b[1] + bsize <= pr_width
               /\ b[2] + bsize <= pr_height
               /\ CellAt(b[1] + bsize - 1, b[2] + bsize - 1, p_linesize)
                      \in DOMAIN fp_dst
        /\ visited \subseteq SweepAxis(pr_width) \X SweepAxis(pr_height)
        /\ Cardinality(visited) = Len(fp_blocks)
        /\ fp_pc \in {"average", "returned"} =>
               /\ visited = SweepAxis(pr_width) \X SweepAxis(pr_height)
               /\ visited = WeightSweep(pr_width, pr_height, bsize, step)
               /\ visited # {} =>
                      /\ <<pr_width - bsize, pr_height - bsize>> \in visited
                      /\ \A b \in visited :
                             /\ b[1] <= pr_width - bsize
                             /\ b[2] <= pr_height - bsize

\* the sweep of a frame that is not processed whole is over, with more
\* than one block and a step of more than one
C18_Witness ==
    /\ fp_pc = "average"
    /\ Len(fp_blocks) > 1
    /\ step > 1
    /\ inlink.h # pr_height
====
